---------------------------- MODULE Spec2Model ----------------------------
(***************************************************************************)
(* EncryptedDocumentVault: the ledger-side document registry, its access   *)
(* gateway to the FHE permission engine, and the ledger's block clock.     *)
(* Every contract call is one atomic transaction; a failed require         *)
(* reverts the transaction, so the contract state is left as it was.       *)
(***************************************************************************)
EXTENDS Integers, Sequences, FiniteSets, TLC

(* ------------------------------ bounds --------------------------------- *)
\* documents that may be created (caps the _nextId counter)
MaxDocs == 2
\* notifications that may be emitted (caps the event log)
MaxEvents == 3
\* blocks the ledger may produce
MaxBlocks == 2
\* updates that may follow one another when two accounts race on a document
MaxRaceUpdates == 2
\* bodies the envelope module may be asked to encrypt
MaxSealed == 2
\* handlers of the client that may be awaiting an answer at the same time
MaxInFlight == 1

(* --------------------------- input domains ----------------------------- *)
\* address(0)
ZeroAddress == "0x0"
\* address(this): the vault contract, custodian of every key
ThisAddress == "vault"
\* externally owned accounts that send transactions
Signers == {"owner", "bob"}
\* "carol" holds an address but sends no transaction: she can only be named
Addresses == Signers \cup {ZeroAddress, "carol"}
\* external ciphertext handles produced by the relayer
Handles == {"h1", "h2"}
\* bytes32(0): the accessKey of a slot never written
NoHandle == "h0"
\* an input proof attests one ciphertext for one submitting account
Proofs == [handle : Handles, user : Signers]
Names == {"", "Doc"}
Bodies == {"", "ciphertext"}
\* ids a caller may pass: 0 (never assigned) and every assignable id
Ids == 0 .. MaxDocs
\* cleartext access keys the client generates (Wallet.createRandom().address)
ClearKeys == {"0xA1", "0xB2"}
\* what the user may have typed into the name field
DocNames == {"", " ", "Doc"}
\* what the user may have typed into the body editor
Drafts == {"", "draft"}
\* values crypto.getRandomValues may return for the 12-byte nonce
Nonces == {"000000000001", "000000000002"}
\* the addressKey values the envelope may be handed: a recovered key may
\* come back in the case it was generated in, or in lower case
EnvelopeKeys == {"0xA1", "0xa1", "0xB2"}

(* ------------------------------- state --------------------------------- *)
VARIABLES
    _nextId,            \* uint256 private _nextId
    _documents,         \* mapping(uint256 => Document)
    _ownedDocuments,    \* mapping(address => uint256[])
    _sharedDocuments,   \* mapping(address => uint256[])
    _isSharedWith,      \* mapping(uint256 => mapping(address => bool))
    acl,                \* the engine's persisted (handle, account) allowances
    events,             \* the ledger's log of emitted events
    blockNumber,        \* block.number
    blockTimestamp,     \* block.timestamp
    last,               \* the last transaction: its call and how it ended
    env,                \* the envelope module's calls: what was sealed, what was opened
    app                 \* the DocumentApp component: its state hooks and pending handlers

contractVars == <<_nextId, _documents, _ownedDocuments, _sharedDocuments,
                  _isSharedWith, acl, events>>
chainVars == <<blockNumber, blockTimestamp>>
\* the state held in the browser, off the ledger
browserVars == <<env, app>>
vars == <<_nextId, _documents, _ownedDocuments, _sharedDocuments,
          _isSharedWith, acl, events, blockNumber, blockTimestamp, last, env,
          app>>

\* the zero value every mapping slot holds before it is written
EmptyDocument ==
    [owner |-> ZeroAddress, name |-> "", encryptedBody |-> "",
     accessKey |-> NoHandle, createdAt |-> 0, updatedAt |-> 0,
     lastEditorBlock |-> 0]

\* a transaction as the ledger records it: the call, and "" or the revert reason
Call(op, sender, id, name, body, key, grantee, err) ==
    [op |-> op, sender |-> sender, id |-> id, name |-> name, body |-> body,
     key |-> key, grantee |-> grantee, err |-> err]

\* faulty variant: the check reports the failure with an event and returns, where
\* require would have reverted
Revert_emitsAndReturns(call) ==
    /\ last' = call
    /\ events' = Append(events,
           [event |-> "Failed", documentId |-> call.id,
            who |-> call.sender, text |-> call.err])
    /\ UNCHANGED <<_nextId, _documents, _ownedDocuments, _sharedDocuments,
                   _isSharedWith, acl>>
    /\ UNCHANGED chainVars

\* a failed require: the whole transaction is rolled back
Revert(call) ==
    /\ last' = call
    /\ UNCHANGED contractVars
    /\ UNCHANGED chainVars

(* ------------------------- the permission engine ----------------------- *)
\* FHE.fromExternal: the proof must bind this ciphertext to this submitter
ProofValid(encryptedAccessKey, inputProof, sender) ==
    /\ inputProof.handle = encryptedAccessKey
    /\ inputProof.user = sender

\* FHE.isSenderAllowed
isSenderAllowed(accessKey, sender) == <<accessKey, sender>> \in acl

(* ------------------------------ reads ---------------------------------- *)
documentExists(documentId) == _documents[documentId].owner # ZeroAddress

totalDocuments == _nextId - 1

getOwnedDocumentIds(owner) == _ownedDocuments[owner]

getSharedDocumentIds(user) == _sharedDocuments[user]

(* ---------------------------- transactions ----------------------------- *)
\* faulty variant: increments before it reads the counter (documentId = ++_nextId)
createDocument_preIncrement(sender, name, encryptedBody, encryptedAccessKey, inputProof) ==
    LET call(err) == Call("createDocument", sender, (_nextId + 1), name, encryptedBody,
                          encryptedAccessKey, ZeroAddress, err)
        documentId == (_nextId + 1)
    IN  IF name = ""
        THEN Revert(call("Name required"))
        ELSE IF ~ProofValid(encryptedAccessKey, inputProof, sender)
        THEN Revert(call("Invalid proof"))
        ELSE /\ _nextId <= MaxDocs
             /\ _nextId' = _nextId + 1
             /\ _documents' = [_documents EXCEPT ![documentId] =
                    [owner |-> sender, name |-> name,
                     encryptedBody |-> encryptedBody,
                     accessKey |-> encryptedAccessKey,
                     createdAt |-> blockTimestamp,
                     updatedAt |-> blockTimestamp,
                     lastEditorBlock |-> blockNumber]]
             /\ _ownedDocuments' = [_ownedDocuments EXCEPT
                    ![sender] = Append(@, documentId)]
             /\ acl' = acl \cup {<<encryptedAccessKey, ThisAddress>>, <<encryptedAccessKey, sender>>}
             /\ events' = Append(events,
                    [event |-> "DocumentCreated", documentId |-> documentId,
                     who |-> sender, text |-> name])
             /\ last' = call("")
             /\ UNCHANGED <<_sharedDocuments, _isSharedWith>>
             /\ UNCHANGED chainVars

\* faulty variant: the require on the name is missing
createDocument_noNameCheck(sender, name, encryptedBody, encryptedAccessKey, inputProof) ==
    LET call(err) == Call("createDocument", sender, _nextId, name, encryptedBody,
                          encryptedAccessKey, ZeroAddress, err)
        documentId == _nextId
    IN  IF ~ProofValid(encryptedAccessKey, inputProof, sender)
        THEN Revert(call("Invalid proof"))
        ELSE /\ _nextId <= MaxDocs
             /\ _nextId' = _nextId + 1
             /\ _documents' = [_documents EXCEPT ![documentId] =
                    [owner |-> sender, name |-> name,
                     encryptedBody |-> encryptedBody,
                     accessKey |-> encryptedAccessKey,
                     createdAt |-> blockTimestamp,
                     updatedAt |-> blockTimestamp,
                     lastEditorBlock |-> blockNumber]]
             /\ _ownedDocuments' = [_ownedDocuments EXCEPT
                    ![sender] = Append(@, documentId)]
             /\ acl' = acl \cup {<<encryptedAccessKey, ThisAddress>>, <<encryptedAccessKey, sender>>}
             /\ events' = Append(events,
                    [event |-> "DocumentCreated", documentId |-> documentId,
                     who |-> sender, text |-> name])
             /\ last' = call("")
             /\ UNCHANGED <<_sharedDocuments, _isSharedWith>>
             /\ UNCHANGED chainVars

\* faulty variant: the id is not pushed to _ownedDocuments[msg.sender]
createDocument_noOwnedPush(sender, name, encryptedBody, encryptedAccessKey, inputProof) ==
    LET call(err) == Call("createDocument", sender, _nextId, name, encryptedBody,
                          encryptedAccessKey, ZeroAddress, err)
        documentId == _nextId
    IN  IF name = ""
        THEN Revert(call("Name required"))
        ELSE IF ~ProofValid(encryptedAccessKey, inputProof, sender)
        THEN Revert(call("Invalid proof"))
        ELSE /\ _nextId <= MaxDocs
             /\ _nextId' = _nextId + 1
             /\ _documents' = [_documents EXCEPT ![documentId] =
                    [owner |-> sender, name |-> name,
                     encryptedBody |-> encryptedBody,
                     accessKey |-> encryptedAccessKey,
                     createdAt |-> blockTimestamp,
                     updatedAt |-> blockTimestamp,
                     lastEditorBlock |-> blockNumber]]
             /\ UNCHANGED _ownedDocuments
             /\ acl' = acl \cup {<<encryptedAccessKey, ThisAddress>>, <<encryptedAccessKey, sender>>}
             /\ events' = Append(events,
                    [event |-> "DocumentCreated", documentId |-> documentId,
                     who |-> sender, text |-> name])
             /\ last' = call("")
             /\ UNCHANGED <<_sharedDocuments, _isSharedWith>>
             /\ UNCHANGED chainVars

\* faulty variant: FHE.allow(validatedKey, msg.sender) is missing
createDocument_noAllowSender(sender, name, encryptedBody, encryptedAccessKey, inputProof) ==
    LET call(err) == Call("createDocument", sender, _nextId, name, encryptedBody,
                          encryptedAccessKey, ZeroAddress, err)
        documentId == _nextId
    IN  IF name = ""
        THEN Revert(call("Name required"))
        ELSE IF ~ProofValid(encryptedAccessKey, inputProof, sender)
        THEN Revert(call("Invalid proof"))
        ELSE /\ _nextId <= MaxDocs
             /\ _nextId' = _nextId + 1
             /\ _documents' = [_documents EXCEPT ![documentId] =
                    [owner |-> sender, name |-> name,
                     encryptedBody |-> encryptedBody,
                     accessKey |-> encryptedAccessKey,
                     createdAt |-> blockTimestamp,
                     updatedAt |-> blockTimestamp,
                     lastEditorBlock |-> blockNumber]]
             /\ _ownedDocuments' = [_ownedDocuments EXCEPT
                    ![sender] = Append(@, documentId)]
             /\ acl' = acl \cup {<<encryptedAccessKey, ThisAddress>>}
             /\ events' = Append(events,
                    [event |-> "DocumentCreated", documentId |-> documentId,
                     who |-> sender, text |-> name])
             /\ last' = call("")
             /\ UNCHANGED <<_sharedDocuments, _isSharedWith>>
             /\ UNCHANGED chainVars

\* faulty variant: updatedAt is stamped one tick after createdAt
createDocument_stampsLater(sender, name, encryptedBody, encryptedAccessKey, inputProof) ==
    LET call(err) == Call("createDocument", sender, _nextId, name, encryptedBody,
                          encryptedAccessKey, ZeroAddress, err)
        documentId == _nextId
    IN  IF name = ""
        THEN Revert(call("Name required"))
        ELSE IF ~ProofValid(encryptedAccessKey, inputProof, sender)
        THEN Revert(call("Invalid proof"))
        ELSE /\ _nextId <= MaxDocs
             /\ _nextId' = _nextId + 1
             /\ _documents' = [_documents EXCEPT ![documentId] =
                    [owner |-> sender, name |-> name,
                     encryptedBody |-> encryptedBody,
                     accessKey |-> encryptedAccessKey,
                     createdAt |-> blockTimestamp,
                     updatedAt |-> blockTimestamp + 1,
                     lastEditorBlock |-> blockNumber]]
             /\ _ownedDocuments' = [_ownedDocuments EXCEPT
                    ![sender] = Append(@, documentId)]
             /\ acl' = acl \cup {<<encryptedAccessKey, ThisAddress>>,
                                 <<encryptedAccessKey, sender>>}
             /\ events' = Append(events,
                    [event |-> "DocumentCreated", documentId |-> documentId,
                     who |-> sender, text |-> name])
             /\ last' = call("")
             /\ UNCHANGED <<_sharedDocuments, _isSharedWith>>
             /\ UNCHANGED chainVars

createDocument(sender, name, encryptedBody, encryptedAccessKey, inputProof) ==
    LET call(err) == Call("createDocument", sender, _nextId, name, encryptedBody,
                          encryptedAccessKey, ZeroAddress, err)
        documentId == _nextId
    IN  IF name = ""
        THEN Revert(call("Name required"))
        ELSE IF ~ProofValid(encryptedAccessKey, inputProof, sender)
        THEN Revert(call("Invalid proof"))
        ELSE /\ _nextId <= MaxDocs
             /\ _nextId' = _nextId + 1
             /\ _documents' = [_documents EXCEPT ![documentId] =
                    [owner |-> sender, name |-> name,
                     encryptedBody |-> encryptedBody,
                     accessKey |-> encryptedAccessKey,
                     createdAt |-> blockTimestamp,
                     updatedAt |-> blockTimestamp,
                     lastEditorBlock |-> blockNumber]]
             /\ _ownedDocuments' = [_ownedDocuments EXCEPT
                    ![sender] = Append(@, documentId)]
             /\ acl' = acl \cup {<<encryptedAccessKey, ThisAddress>>,
                                 <<encryptedAccessKey, sender>>}
             /\ events' = Append(events,
                    [event |-> "DocumentCreated", documentId |-> documentId,
                     who |-> sender, text |-> name])
             /\ last' = call("")
             /\ UNCHANGED <<_sharedDocuments, _isSharedWith>>
             /\ UNCHANGED chainVars

\* _getDocument's require: the slot was written by createDocument
_getDocument(documentId) == _documents[documentId].owner # ZeroAddress

\* faulty variant: asks the engine about address(this) instead of msg.sender
_requireAccess_asVault(accessKey, sender) ==
    isSenderAllowed(accessKey, ThisAddress)

\* faulty variant: only the owner of a document with this key passes
_requireAccess_ownerOnly(accessKey, sender) ==
    \E i \in Ids : _documents[i].accessKey = accessKey /\ _documents[i].owner = sender

\* _requireAccess's require: the engine allows msg.sender on the key
_requireAccess(accessKey, sender) == isSenderAllowed(accessKey, sender)

\* faulty variant: the read asks the engine about msg.sender before it answers
getDocument_requiresAccess(sender, documentId) ==
    LET doc == _documents[documentId]
    IN  IF ~_getDocument(documentId)
        THEN [err |-> "Document not found"]
        ELSE IF ~_requireAccess(doc.accessKey, sender)
        THEN [err |-> "Sender not authorized for key"]
        ELSE [err |-> "", name |-> doc.name, encryptedBody |-> doc.encryptedBody,
              accessKey |-> doc.accessKey, owner |-> doc.owner,
              createdAt |-> doc.createdAt, updatedAt |-> doc.updatedAt,
              lastEditorBlock |-> doc.lastEditorBlock]

\* what getDocument answers msg.sender: the revert reason, or the seven values
getDocument(sender, documentId) ==
    LET doc == _documents[documentId]
    IN  IF ~_getDocument(documentId)
        THEN [err |-> "Document not found"]
        ELSE [err |-> "", name |-> doc.name, encryptedBody |-> doc.encryptedBody,
              accessKey |-> doc.accessKey, owner |-> doc.owner,
              createdAt |-> doc.createdAt, updatedAt |-> doc.updatedAt,
              lastEditorBlock |-> doc.lastEditorBlock]

\* a caller reads a document: getDocument is external view, it writes nothing
ViewDocument(sender, documentId) ==
    /\ last' = Call("getDocument", sender, documentId, "", "", NoHandle,
                    ZeroAddress, getDocument(sender, documentId).err)
    /\ UNCHANGED contractVars
    /\ UNCHANGED chainVars

\* faulty variant: stores the new body but leaves updatedAt as it was
updateDocumentBody_keepsUpdatedAt(sender, documentId, newEncryptedBody) ==
    LET call(err) == Call("updateDocumentBody", sender, documentId, "",
                          newEncryptedBody, NoHandle, ZeroAddress, err)
        doc == _documents[documentId]
    IN  IF ~_getDocument(documentId)
        THEN Revert(call("Document not found"))
        ELSE IF ~_requireAccess(doc.accessKey, sender)
        THEN Revert(call("Sender not authorized for key"))
        ELSE /\ _documents' = [_documents EXCEPT ![documentId] =
                    [@ EXCEPT !.encryptedBody = newEncryptedBody,
                              !.lastEditorBlock = blockNumber]]
             /\ events' = Append(events,
                    [event |-> "DocumentUpdated", documentId |-> documentId,
                     who |-> sender, text |-> newEncryptedBody])
             /\ last' = call("")
             /\ UNCHANGED <<_nextId, _ownedDocuments, _sharedDocuments,
                            _isSharedWith, acl>>
             /\ UNCHANGED chainVars

\* faulty variant: an update stamps createdAt as well as updatedAt
updateDocumentBody_restampsCreatedAt(sender, documentId, newEncryptedBody) ==
    LET call(err) == Call("updateDocumentBody", sender, documentId, "",
                          newEncryptedBody, NoHandle, ZeroAddress, err)
        doc == _documents[documentId]
    IN  IF ~_getDocument(documentId)
        THEN Revert(call("Document not found"))
        ELSE IF ~_requireAccess(doc.accessKey, sender)
        THEN Revert(call("Sender not authorized for key"))
        ELSE /\ _documents' = [_documents EXCEPT ![documentId] =
                    [@ EXCEPT !.encryptedBody = newEncryptedBody,
                              !.createdAt = blockTimestamp,
                              !.updatedAt = blockTimestamp,
                              !.lastEditorBlock = blockNumber]]
             /\ events' = Append(events,
                    [event |-> "DocumentUpdated", documentId |-> documentId,
                     who |-> sender, text |-> newEncryptedBody])
             /\ last' = call("")
             /\ UNCHANGED <<_nextId, _ownedDocuments, _sharedDocuments,
                            _isSharedWith, acl>>
             /\ UNCHANGED chainVars

\* faulty variant: storing the empty body deletes the record
updateDocumentBody_emptyDeletes(sender, documentId, newEncryptedBody) ==
    LET call(err) == Call("updateDocumentBody", sender, documentId, "",
                          newEncryptedBody, NoHandle, ZeroAddress, err)
        doc == _documents[documentId]
    IN  IF ~_getDocument(documentId)
        THEN Revert(call("Document not found"))
        ELSE IF ~_requireAccess(doc.accessKey, sender)
        THEN Revert(call("Sender not authorized for key"))
        ELSE /\ _documents' = [_documents EXCEPT ![documentId] =
                    IF newEncryptedBody = ""
                    THEN EmptyDocument
                    ELSE [@ EXCEPT !.encryptedBody = newEncryptedBody,
                                   !.updatedAt = blockTimestamp,
                                   !.lastEditorBlock = blockNumber]]
             /\ events' = Append(events,
                    [event |-> "DocumentUpdated", documentId |-> documentId,
                     who |-> sender, text |-> newEncryptedBody])
             /\ last' = call("")
             /\ UNCHANGED <<_nextId, _ownedDocuments, _sharedDocuments,
                            _isSharedWith, acl>>
             /\ UNCHANGED chainVars

\* faulty variant: the new body is appended to the stored one
updateDocumentBody_appends(sender, documentId, newEncryptedBody) ==
    LET call(err) == Call("updateDocumentBody", sender, documentId, "",
                          newEncryptedBody, NoHandle, ZeroAddress, err)
        doc == _documents[documentId]
    IN  IF ~_getDocument(documentId)
        THEN Revert(call("Document not found"))
        ELSE IF ~_requireAccess(doc.accessKey, sender)
        THEN Revert(call("Sender not authorized for key"))
        ELSE /\ _documents' = [_documents EXCEPT ![documentId] =
                    [@ EXCEPT !.encryptedBody = @ \o newEncryptedBody,
                              !.updatedAt = blockTimestamp,
                              !.lastEditorBlock = blockNumber]]
             /\ events' = Append(events,
                    [event |-> "DocumentUpdated", documentId |-> documentId,
                     who |-> sender, text |-> newEncryptedBody])
             /\ last' = call("")
             /\ UNCHANGED <<_nextId, _ownedDocuments, _sharedDocuments,
                            _isSharedWith, acl>>
             /\ UNCHANGED chainVars

\* faulty variant: no notification when the new body equals the stored one
updateDocumentBody_quietWhenSame(sender, documentId, newEncryptedBody) ==
    LET call(err) == Call("updateDocumentBody", sender, documentId, "",
                          newEncryptedBody, NoHandle, ZeroAddress, err)
        doc == _documents[documentId]
    IN  IF ~_getDocument(documentId)
        THEN Revert(call("Document not found"))
        ELSE IF ~_requireAccess(doc.accessKey, sender)
        THEN Revert(call("Sender not authorized for key"))
        ELSE /\ _documents' = [_documents EXCEPT ![documentId] =
                    [@ EXCEPT !.encryptedBody = newEncryptedBody,
                              !.updatedAt = blockTimestamp,
                              !.lastEditorBlock = blockNumber]]
             /\ events' = IF newEncryptedBody = doc.encryptedBody
                          THEN events
                          ELSE Append(events,
                                 [event |-> "DocumentUpdated",
                                  documentId |-> documentId,
                                  who |-> sender, text |-> newEncryptedBody])
             /\ last' = call("")
             /\ UNCHANGED <<_nextId, _ownedDocuments, _sharedDocuments,
                            _isSharedWith, acl>>
             /\ UNCHANGED chainVars

\* faulty variant: the editor is entered in the shared index
updateDocumentBody_listsEditor(sender, documentId, newEncryptedBody) ==
    LET call(err) == Call("updateDocumentBody", sender, documentId, "",
                          newEncryptedBody, NoHandle, ZeroAddress, err)
        doc == _documents[documentId]
    IN  IF ~_getDocument(documentId)
        THEN Revert(call("Document not found"))
        ELSE IF ~_requireAccess(doc.accessKey, sender)
        THEN Revert(call("Sender not authorized for key"))
        ELSE /\ _documents' = [_documents EXCEPT ![documentId] =
                    [@ EXCEPT !.encryptedBody = newEncryptedBody,
                              !.updatedAt = blockTimestamp,
                              !.lastEditorBlock = blockNumber]]
             /\ events' = Append(events,
                    [event |-> "DocumentUpdated", documentId |-> documentId,
                     who |-> sender, text |-> newEncryptedBody])
             /\ last' = call("")
             /\ _sharedDocuments' = [_sharedDocuments EXCEPT
                    ![sender] = Append(@, documentId)]
             /\ UNCHANGED <<_nextId, _ownedDocuments, _isSharedWith, acl>>
             /\ UNCHANGED chainVars

\* faulty variant: the engine is asked before the document is looked up
updateDocumentBody_accessFirst(sender, documentId, newEncryptedBody) ==
    LET call(err) == Call("updateDocumentBody", sender, documentId, "",
                          newEncryptedBody, NoHandle, ZeroAddress, err)
        doc == _documents[documentId]
    IN  IF ~_requireAccess(doc.accessKey, sender)
        THEN Revert(call("Sender not authorized for key"))
        ELSE IF ~_getDocument(documentId)
        THEN Revert(call("Document not found"))
        ELSE /\ _documents' = [_documents EXCEPT ![documentId] =
                    [@ EXCEPT !.encryptedBody = newEncryptedBody,
                              !.updatedAt = blockTimestamp,
                              !.lastEditorBlock = blockNumber]]
             /\ events' = Append(events,
                    [event |-> "DocumentUpdated", documentId |-> documentId,
                     who |-> sender, text |-> newEncryptedBody])
             /\ last' = call("")
             /\ UNCHANGED <<_nextId, _ownedDocuments, _sharedDocuments,
                            _isSharedWith, acl>>
             /\ UNCHANGED chainVars

updateDocumentBody(sender, documentId, newEncryptedBody) ==
    LET call(err) == Call("updateDocumentBody", sender, documentId, "",
                          newEncryptedBody, NoHandle, ZeroAddress, err)
        doc == _documents[documentId]
    IN  IF ~_getDocument(documentId)
        THEN Revert(call("Document not found"))
        ELSE IF ~_requireAccess(doc.accessKey, sender)
        THEN Revert(call("Sender not authorized for key"))
        ELSE /\ _documents' = [_documents EXCEPT ![documentId] =
                    [@ EXCEPT !.encryptedBody = newEncryptedBody,
                              !.updatedAt = blockTimestamp,
                              !.lastEditorBlock = blockNumber]]
             /\ events' = Append(events,
                    [event |-> "DocumentUpdated", documentId |-> documentId,
                     who |-> sender, text |-> newEncryptedBody])
             /\ last' = call("")
             /\ UNCHANGED <<_nextId, _ownedDocuments, _sharedDocuments,
                            _isSharedWith, acl>>
             /\ UNCHANGED chainVars

\* faulty variant: records the share but never calls FHE.allow for the grantee
grantAccess_noAllow(sender, documentId, grantee) ==
    LET call(err) == Call("grantAccess", sender, documentId, "", "",
                          NoHandle, grantee, err)
        doc == _documents[documentId]
    IN  IF grantee = ZeroAddress
        THEN Revert(call("Invalid grantee"))
        ELSE IF ~_getDocument(documentId)
        THEN Revert(call("Document not found"))
        ELSE IF ~_requireAccess(doc.accessKey, sender)
        THEN Revert(call("Sender not authorized for key"))
        ELSE /\ IF ~_isSharedWith[documentId][grantee]
                THEN /\ _isSharedWith' = [_isSharedWith EXCEPT
                            ![documentId][grantee] = TRUE]
                     /\ _sharedDocuments' = [_sharedDocuments EXCEPT
                            ![grantee] = Append(@, documentId)]
                ELSE UNCHANGED <<_isSharedWith, _sharedDocuments>>
             /\ events' = Append(events,
                    [event |-> "AccessGranted", documentId |-> documentId,
                     who |-> grantee, text |-> ""])
             /\ last' = call("")
             /\ UNCHANGED <<_nextId, _documents, _ownedDocuments, acl>>
             /\ UNCHANGED chainVars

\* faulty variant: looks the document up before it checks the grantee
grantAccess_lookupFirst(sender, documentId, grantee) ==
    LET call(err) == Call("grantAccess", sender, documentId, "", "",
                          NoHandle, grantee, err)
        doc == _documents[documentId]
    IN  IF ~_getDocument(documentId)
        THEN Revert(call("Document not found"))
        ELSE IF grantee = ZeroAddress
        THEN Revert(call("Invalid grantee"))
        ELSE IF ~_requireAccess(doc.accessKey, sender)
        THEN Revert(call("Sender not authorized for key"))
        ELSE /\ IF ~_isSharedWith[documentId][grantee]
                THEN /\ _isSharedWith' = [_isSharedWith EXCEPT
                            ![documentId][grantee] = TRUE]
                     /\ _sharedDocuments' = [_sharedDocuments EXCEPT
                            ![grantee] = Append(@, documentId)]
                ELSE UNCHANGED <<_isSharedWith, _sharedDocuments>>
             /\ acl' = acl \cup {<<doc.accessKey, grantee>>}
             /\ events' = Append(events,
                    [event |-> "AccessGranted", documentId |-> documentId,
                     who |-> grantee, text |-> ""])
             /\ last' = call("")
             /\ UNCHANGED <<_nextId, _documents, _ownedDocuments>>
             /\ UNCHANGED chainVars

\* faulty variant: pushes the id to _sharedDocuments without asking _isSharedWith
grantAccess_alwaysPush(sender, documentId, grantee) ==
    LET call(err) == Call("grantAccess", sender, documentId, "", "",
                          NoHandle, grantee, err)
        doc == _documents[documentId]
    IN  IF grantee = ZeroAddress
        THEN Revert(call("Invalid grantee"))
        ELSE IF ~_getDocument(documentId)
        THEN Revert(call("Document not found"))
        ELSE IF ~_requireAccess(doc.accessKey, sender)
        THEN Revert(call("Sender not authorized for key"))
        ELSE /\ _isSharedWith' = [_isSharedWith EXCEPT
                    ![documentId][grantee] = TRUE]
             /\ _sharedDocuments' = [_sharedDocuments EXCEPT
                    ![grantee] = Append(@, documentId)]
             /\ acl' = acl \cup {<<doc.accessKey, grantee>>}
             /\ events' = Append(events,
                    [event |-> "AccessGranted", documentId |-> documentId,
                     who |-> grantee, text |-> ""])
             /\ last' = call("")
             /\ UNCHANGED <<_nextId, _documents, _ownedDocuments>>
             /\ UNCHANGED chainVars

\* faulty variant: a grant to an account already shared with takes the share back
grantAccess_toggles(sender, documentId, grantee) ==
    LET call(err) == Call("grantAccess", sender, documentId, "", "",
                          NoHandle, grantee, err)
        doc == _documents[documentId]
    IN  IF grantee = ZeroAddress
        THEN Revert(call("Invalid grantee"))
        ELSE IF ~_getDocument(documentId)
        THEN Revert(call("Document not found"))
        ELSE IF ~_requireAccess(doc.accessKey, sender)
        THEN Revert(call("Sender not authorized for key"))
        ELSE /\ IF ~_isSharedWith[documentId][grantee]
                THEN /\ _isSharedWith' = [_isSharedWith EXCEPT
                            ![documentId][grantee] = TRUE]
                     /\ _sharedDocuments' = [_sharedDocuments EXCEPT
                            ![grantee] = Append(@, documentId)]
                ELSE /\ _isSharedWith' = [_isSharedWith EXCEPT
                            ![documentId][grantee] = FALSE]
                     /\ UNCHANGED _sharedDocuments
             /\ acl' = IF ~_isSharedWith[documentId][grantee]
                       THEN acl \cup {<<doc.accessKey, grantee>>}
                       ELSE acl \ {<<doc.accessKey, grantee>>}
             /\ events' = Append(events,
                    [event |-> "AccessGranted", documentId |-> documentId,
                     who |-> grantee, text |-> ""])
             /\ last' = call("")
             /\ UNCHANGED <<_nextId, _documents, _ownedDocuments>>
             /\ UNCHANGED chainVars

\* faulty variant: a grant stamps updatedAt and lastEditorBlock of the record
grantAccess_touchesUpdatedAt(sender, documentId, grantee) ==
    LET call(err) == Call("grantAccess", sender, documentId, "", "",
                          NoHandle, grantee, err)
        doc == _documents[documentId]
    IN  IF grantee = ZeroAddress
        THEN Revert(call("Invalid grantee"))
        ELSE IF ~_getDocument(documentId)
        THEN Revert(call("Document not found"))
        ELSE IF ~_requireAccess(doc.accessKey, sender)
        THEN Revert(call("Sender not authorized for key"))
        ELSE /\ IF ~_isSharedWith[documentId][grantee]
                THEN /\ _isSharedWith' = [_isSharedWith EXCEPT
                            ![documentId][grantee] = TRUE]
                     /\ _sharedDocuments' = [_sharedDocuments EXCEPT
                            ![grantee] = Append(@, documentId)]
                ELSE UNCHANGED <<_isSharedWith, _sharedDocuments>>
             /\ acl' = acl \cup {<<doc.accessKey, grantee>>}
             /\ events' = Append(events,
                    [event |-> "AccessGranted", documentId |-> documentId,
                     who |-> grantee, text |-> ""])
             /\ last' = call("")
             /\ _documents' = [_documents EXCEPT ![documentId] =
                    [@ EXCEPT !.updatedAt = blockTimestamp,
                              !.lastEditorBlock = blockNumber]]
             /\ UNCHANGED <<_nextId, _ownedDocuments>>
             /\ UNCHANGED chainVars

\* faulty variant: a grant to an address that is already marked is not announced
grantAccess_quietWhenShared(sender, documentId, grantee) ==
    LET call(err) == Call("grantAccess", sender, documentId, "", "",
                          NoHandle, grantee, err)
        doc == _documents[documentId]
    IN  IF grantee = ZeroAddress
        THEN Revert(call("Invalid grantee"))
        ELSE IF ~_getDocument(documentId)
        THEN Revert(call("Document not found"))
        ELSE IF ~_requireAccess(doc.accessKey, sender)
        THEN Revert(call("Sender not authorized for key"))
        ELSE /\ IF ~_isSharedWith[documentId][grantee]
                THEN /\ _isSharedWith' = [_isSharedWith EXCEPT
                            ![documentId][grantee] = TRUE]
                     /\ _sharedDocuments' = [_sharedDocuments EXCEPT
                            ![grantee] = Append(@, documentId)]
                     /\ events' = Append(events,
                            [event |-> "AccessGranted", documentId |-> documentId,
                             who |-> grantee, text |-> ""])
                ELSE UNCHANGED <<_isSharedWith, _sharedDocuments, events>>
             /\ acl' = acl \cup {<<doc.accessKey, grantee>>}
             /\ last' = call("")
             /\ UNCHANGED <<_nextId, _documents, _ownedDocuments>>
             /\ UNCHANGED chainVars

\* faulty variant: the grantee is marked but the document is not put on the
\* grantee's list
grantAccess_marksOnly(sender, documentId, grantee) ==
    LET call(err) == Call("grantAccess", sender, documentId, "", "",
                          NoHandle, grantee, err)
        doc == _documents[documentId]
    IN  IF grantee = ZeroAddress
        THEN Revert(call("Invalid grantee"))
        ELSE IF ~_getDocument(documentId)
        THEN Revert(call("Document not found"))
        ELSE IF ~_requireAccess(doc.accessKey, sender)
        THEN Revert(call("Sender not authorized for key"))
        ELSE /\ _isSharedWith' = [_isSharedWith EXCEPT
                    ![documentId][grantee] = TRUE]
             /\ acl' = acl \cup {<<doc.accessKey, grantee>>}
             /\ events' = Append(events,
                    [event |-> "AccessGranted", documentId |-> documentId,
                     who |-> grantee, text |-> ""])
             /\ last' = call("")
             /\ UNCHANGED <<_nextId, _documents, _ownedDocuments, _sharedDocuments>>
             /\ UNCHANGED chainVars

grantAccess(sender, documentId, grantee) ==
    LET call(err) == Call("grantAccess", sender, documentId, "", "",
                          NoHandle, grantee, err)
        doc == _documents[documentId]
    IN  IF grantee = ZeroAddress
        THEN Revert(call("Invalid grantee"))
        ELSE IF ~_getDocument(documentId)
        THEN Revert(call("Document not found"))
        ELSE IF ~_requireAccess(doc.accessKey, sender)
        THEN Revert(call("Sender not authorized for key"))
        ELSE /\ IF ~_isSharedWith[documentId][grantee]
                THEN /\ _isSharedWith' = [_isSharedWith EXCEPT
                            ![documentId][grantee] = TRUE]
                     /\ _sharedDocuments' = [_sharedDocuments EXCEPT
                            ![grantee] = Append(@, documentId)]
                ELSE UNCHANGED <<_isSharedWith, _sharedDocuments>>
             /\ acl' = acl \cup {<<doc.accessKey, grantee>>}
             /\ events' = Append(events,
                    [event |-> "AccessGranted", documentId |-> documentId,
                     who |-> grantee, text |-> ""])
             /\ last' = call("")
             /\ UNCHANGED <<_nextId, _documents, _ownedDocuments>>
             /\ UNCHANGED chainVars

\* the ledger seals a block: later transactions see a later number and time
NewBlock ==
    /\ blockNumber < MaxBlocks
    /\ blockNumber' = blockNumber + 1
    /\ blockTimestamp' = blockTimestamp + 1
    /\ last' = Call("block", ZeroAddress, 0, "", "", NoHandle,
                    ZeroAddress, "")
    /\ UNCHANGED contractVars

(* ------------------------- the body envelope --------------------------- *)
\* String.prototype.toLowerCase on one character of an address
LowerChar(c) ==
    CASE c = "A" -> "a" [] c = "B" -> "b" [] c = "C" -> "c"
      [] c = "D" -> "d" [] c = "E" -> "e" [] c = "F" -> "f"
      [] OTHER -> c

RECURSIVE toLowerCase(_)
toLowerCase(str) ==
    IF Len(str) = 0 THEN ""
    ELSE LowerChar(SubSeq(str, 1, 1)) \o toLowerCase(SubSeq(str, 2, Len(str)))

\* faulty variant: the address is hashed in the case it comes in
deriveKey_caseSensitive(addressKey) == "sha256(" \o addressKey \o ")"

\* the AES key: the SHA-256 digest of the lower-cased address, as a term
deriveKey(addressKey) == "sha256(" \o toLowerCase(addressKey) \o ")"

\* crypto.subtle.encrypt with AES-GCM: ciphertext and tag, as a term over the
\* key, the nonce and the plaintext
AesGcmEncrypt(key, iv, data) == "gcm(" \o key \o "," \o iv \o "," \o data \o ")"

\* btoa over the payload bytes, as a term; no bytes give the empty string
toBase64(bytes) == IF Len(bytes) = 0 THEN "" ELSE "b64(" \o bytes \o ")"

\* faulty variant: the empty body is encrypted like any other
encryptBodyWithKey_encryptsEmpty(body, addressKey, iv) ==
    toBase64(iv \o AesGcmEncrypt(deriveKey(addressKey), iv, body))

\* encryptBodyWithKey, with the nonce the random source returned
encryptBodyWithKey(body, addressKey, iv) ==
    IF Len(body) = 0
    THEN ""
    ELSE toBase64(iv \o AesGcmEncrypt(deriveKey(addressKey), iv, body))

\* the iv is 12 bytes long
NonceLength == 12

Min(a, b) == IF a <= b THEN a ELSE b

\* Uint8Array.prototype.slice(from, to): indexes from 0, and clamps to the end
slice(bytes, from, to) == SubSeq(bytes, from + 1, Min(to, Len(bytes)))

\* atob: the bytes a well-formed string encodes; it throws on any other
fromBase64(value) ==
    IF Len(value) = 0
    THEN [err |-> "", bytes |-> ""]
    ELSE IF /\ Len(value) > 5
            /\ SubSeq(value, 1, 4) = "b64("
            /\ SubSeq(value, Len(value), Len(value)) = ")"
    THEN [err |-> "", bytes |-> SubSeq(value, 5, Len(value) - 1)]
    ELSE [err |-> "InvalidCharacterError"]

\* crypto.subtle.decrypt with AES-GCM: it returns the plaintext of a
\* ciphertext made under this key and this nonce, and throws on any other
AesGcmDecrypt(key, iv, data) ==
    IF \E d \in Drafts : data = AesGcmEncrypt(key, iv, d)
    THEN [err |-> "", data |-> CHOOSE d \in Drafts : data = AesGcmEncrypt(key, iv, d)]
    ELSE [err |-> "OperationError"]

\* whatever decryptBodyWithKey throws, the caller sees a failed decryption
DecryptionFailed == "DecryptionFailed"

\* faulty variant: the nonce is taken to be 16 bytes long
decryptBodyWithKey_slices16(payload, addressKey) ==
    IF Len(payload) = 0
    THEN [err |-> "", text |-> ""]
    ELSE LET raw == fromBase64(payload)
         IN  IF raw.err # ""
             THEN [err |-> DecryptionFailed]
             ELSE LET iv == slice(raw.bytes, 0, 16)
                      cipher == slice(raw.bytes, 16, Len(raw.bytes))
                      decrypted == AesGcmDecrypt(deriveKey(addressKey), iv, cipher)
                  IN  IF decrypted.err # ""
                      THEN [err |-> DecryptionFailed]
                      ELSE [err |-> "", text |-> decrypted.data]

\* faulty variant: a failure is swallowed and the empty text returned
decryptBodyWithKey_swallows(payload, addressKey) ==
    IF Len(payload) = 0
    THEN [err |-> "", text |-> ""]
    ELSE LET raw == fromBase64(payload)
         IN  IF raw.err # ""
             THEN [err |-> "", text |-> ""]
             ELSE LET iv == slice(raw.bytes, 0, NonceLength)
                      cipher == slice(raw.bytes, NonceLength, Len(raw.bytes))
                      decrypted == AesGcmDecrypt(deriveKey(addressKey), iv, cipher)
                  IN  IF decrypted.err # ""
                      THEN [err |-> "", text |-> ""]
                      ELSE [err |-> "", text |-> decrypted.data]

\* decryptBodyWithKey: the text, or the failure
decryptBodyWithKey(payload, addressKey) ==
    IF Len(payload) = 0
    THEN [err |-> "", text |-> ""]
    ELSE LET raw == fromBase64(payload)
         IN  IF raw.err # ""
             THEN [err |-> DecryptionFailed]
             ELSE LET iv == slice(raw.bytes, 0, NonceLength)
                      cipher == slice(raw.bytes, NonceLength, Len(raw.bytes))
                      decrypted == AesGcmDecrypt(deriveKey(addressKey), iv, cipher)
                  IN  IF decrypted.err # ""
                      THEN [err |-> DecryptionFailed]
                      ELSE [err |-> "", text |-> decrypted.data]

(* ---------------------- calls of the envelope module ------------------ *)
EnvInit ==
    [sealed |-> <<>>, op |-> "none", arg |-> "", addressKey |-> "",
     source |-> 0, damage |-> "none", out |-> [err |-> "", text |-> ""]]

\* the nonces the random source has handed out: a cryptographic source does
\* not hand out the same 12 bytes twice
UsedNonces == {env.sealed[j].iv : j \in 1 .. Len(env.sealed)} \ {""}

\* a call of encryptBodyWithKey; the random source is asked only for a body
\* that is not empty
EncryptBody(body, addressKey) ==
    /\ Len(env.sealed) < MaxSealed
    /\ \E iv \in (IF Len(body) = 0 THEN {""} ELSE Nonces \ UsedNonces) :
          LET payload == encryptBodyWithKey(body, addressKey, iv)
          IN  env' = [sealed |-> Append(env.sealed,
                          [body |-> body, addressKey |-> addressKey,
                           iv |-> iv, payload |-> payload]),
                      op |-> "encrypt", arg |-> body, addressKey |-> addressKey,
                      source |-> 0, damage |-> "none",
                      out |-> [err |-> "", text |-> payload]]

\* a payload cut short, as text or as bytes
Truncated(payload) ==
    {SubSeq(payload, 1, n) : n \in 1 .. Len(payload) - 1}
    \cup {toBase64(SubSeq(fromBase64(payload).bytes, 1, n)) :
             n \in 1 .. Len(fromBase64(payload).bytes) - 1}

\* a payload with one character replaced
Tampered(payload) ==
    {SubSeq(payload, 1, n - 1) \o "#" \o SubSeq(payload, n + 1, Len(payload)) :
        n \in 1 .. Len(payload)}

\* what may have become of a payload before it is opened
Damaged(payload, damage) ==
    CASE damage = "none" -> {payload}
      [] damage = "truncated" -> Truncated(payload)
      [] damage = "tampered" -> Tampered(payload)

\* a call of decryptBodyWithKey on the payload of the source-th sealing call,
\* as it was produced or damaged (source 0: on the empty payload)
DecryptBody(payload, addressKey, source, damage) ==
    env' = [env EXCEPT !.op = "decrypt", !.arg = payload,
                       !.addressKey = addressKey,
                       !.source = source, !.damage = damage,
                       !.out = decryptBodyWithKey(payload, addressKey)]

(* ------------------------------ the relayer ---------------------------- *)
\* the handle under which the engine holds the ciphertext of a cleartext key
HandleOf(key) == CASE key = "0xA1" -> "h1" [] key = "0xB2" -> "h2"

\* what userDecrypt recovers from a handle for an account the engine allows
ClearOf(handle) == CHOOSE key \in ClearKeys : HandleOf(key) = handle

\* createEncryptedInput(contract, user).addAddress(key).encrypt()
encrypt(key, user) ==
    [handles |-> <<HandleOf(key)>>,
     inputProof |-> [handle |-> HandleOf(key), user |-> user]]

(* ----------------------- the client's submissions ---------------------- *)
\* String.prototype.trim, for the blanks a name may carry
RECURSIVE trim(_)
trim(str) ==
    IF Len(str) > 0 /\ SubSeq(str, 1, 1) = " "
    THEN trim(SubSeq(str, 2, Len(str)))
    ELSE IF Len(str) > 0 /\ SubSeq(str, Len(str), Len(str)) = " "
    THEN trim(SubSeq(str, 1, Len(str) - 1))
    ELSE str

\* the documents the client may hold as selectedDoc: those it has loaded
SelectableIds == {i \in Ids : documentExists(i)}

\* the values documentKey may hold: keys userDecrypt has handed to an account
\* the engine allows on their handle
RecoverableKeys == {ClearOf(h) : h \in {x \in Handles : \E a \in Signers : <<x, a>> \in acl}}

\* faulty variant: the generated key is sent along as the initial body
App_createDocument_keyAsBody(address, docName, generatedKey) ==
    LET encryptedInput == encrypt(generatedKey, address)
        name == IF trim(docName) = "" THEN "Untitled document" ELSE trim(docName)
    IN  createDocument(address, name, generatedKey, encryptedInput.handles[1],
                       encryptedInput.inputProof)

\* DocumentApp.createDocument: the transaction the connected account submits
App_createDocument(address, docName, generatedKey) ==
    LET encryptedInput == encrypt(generatedKey, address)
        name == IF trim(docName) = "" THEN "Untitled document" ELSE trim(docName)
    IN  createDocument(address, name, "", encryptedInput.handles[1],
                       encryptedInput.inputProof)

\* DocumentApp.saveBody: the draft goes out encrypted under documentKey
App_saveBody(address, selectedId, bodyDraft, documentKey, iv) ==
    /\ documentKey # ""
    /\ selectedId \in SelectableIds
    /\ updateDocumentBody(address, selectedId,
                          encryptBodyWithKey(bodyDraft, documentKey, iv))

\* DocumentApp.grantAccess: any well-formed address may be named as grantee
App_grantAccess(address, selectedId, granteeAddress) ==
    /\ selectedId \in SelectableIds
    /\ grantAccess(address, selectedId, granteeAddress)

(* ----------------------- the DocumentApp component --------------------- *)
\* useAccount().address: the account the wallet is connected with
address == "owner"

\* selectedId === null; ids the ledger assigns start at 1
null == 0

\* isAddress(value): what the grantee field holds is a well-formed address
isAddress(value) == value \in Addresses

\* what the grantee field may hold when the button is pressed: nothing, the
\* zero address, or another account's address
GranteeInputs == {"", ZeroAddress, "bob"}

\* the messages the handlers show with alert()
MissingDocument == "Missing instance, account, or document"
KeyFirst == "Decrypt the access key first"
SelectFirst == "Select a document first"
InvalidGrantee == "Enter a valid address to share with"
CreateFailed == "Failed to create document. Check console for details."
KeyFailed == "Unable to decrypt the access key. Ensure ACL has been granted."
BodyFailed == "Unable to decrypt the document body with this key"
SaveFailed == "Updating the encrypted body failed. Make sure you have permission."
GrantFailed == "Granting access failed. Ensure your address is allowed for this document."

\* what a handler holds on to from the render it was started in, and the
\* values these slots take while the handler is not running
IdleKeyJob == [handle |-> NoHandle]
IdleBodyJob == [payload |-> "", key |-> ""]
IdleSaveJob == [id |-> null, draft |-> "", key |-> ""]
IdleGrantJob == [id |-> null]

\* what a click that the handler turns down is answered with
Refusals == {MissingDocument, KeyFirst, SelectFirst, InvalidGrantee}

AppInit ==
    [documents |-> <<>>, selectedId |-> null, documentKey |-> "",
     decryptedBody |-> "", bodyDraft |-> "",
     creating |-> FALSE, decryptingKey |-> FALSE, decryptingBody |-> FALSE,
     savingBody |-> FALSE, granting |-> FALSE,
     keyJob |-> IdleKeyJob, bodyJob |-> IdleBodyJob, saveJob |-> IdleSaveJob,
     grantJob |-> IdleGrantJob,
     alert |-> ""]

BrowserInit == env = EnvInit /\ app = AppInit

Range(seq) == {seq[j] : j \in 1 .. Len(seq)}

\* Array.from(ids).sort((a, b) => a - b)
RECURSIVE sort(_)
sort(ids) ==
    IF ids = {} THEN <<>>
    ELSE LET least == CHOOSE x \in ids : \A y \in ids : x <= y
         IN  <<least>> \o sort(ids \ {least})

\* docIds: the ids the account owns or was given, once each, ascending
docIds(owned, shared) == sort(Range(owned[address]) \cup Range(shared[address]))

\* the records the load effect builds from getDocument's answers; a bytes32
\* arrives as a hex string, which normalizeHandle hands on as it is, and the
\* seventh value (lastEditorBlock) is not kept
records(docs, ids) ==
    [j \in 1 .. Len(ids) |->
        [id |-> ids[j], name |-> docs[ids[j]].name,
         encryptedBody |-> docs[ids[j]].encryptedBody,
         accessKeyHandle |-> docs[ids[j]].accessKey,
         owner |-> docs[ids[j]].owner,
         createdAt |-> docs[ids[j]].createdAt,
         updatedAt |-> docs[ids[j]].updatedAt]]

\* setSelectedId, with the effect on [selectedId] that follows the render
setSelectedId(a, id) ==
    IF id = a.selectedId THEN a
    ELSE [a EXCEPT !.selectedId = id, !.documentKey = "",
                   !.decryptedBody = "", !.bodyDraft = ""]

\* the load effect, run to its end against the ledger as it stands
load(a, docs, owned, shared) ==
    LET ids == docIds(owned, shared)
    IN  IF Len(ids) = 0
        THEN setSelectedId([a EXCEPT !.documents = <<>>], null)
        ELSE IF a.selectedId = null
        THEN setSelectedId([a EXCEPT !.documents = records(docs, ids)], ids[1])
        ELSE [a EXCEPT !.documents = records(docs, ids)]

\* ownedIds.refetch(), sharedIds.refetch(): what the component may be left
\* as.  When the ids differ from those loaded, docIds changes and the load
\* effect runs.  When they are the same, the query either hands back the
\* array it held, so that docIds is the same array and no effect runs, or
\* a new array, so that the load effect runs.
refetch(a, docs, owned, shared) ==
    IF docIds(owned, shared) = [j \in 1 .. Len(a.documents) |-> a.documents[j].id]
    THEN {a, load(a, docs, owned, shared)}
    ELSE {load(a, docs, owned, shared)}

\* selectedDoc: documents.find((doc) => doc.id === selectedId) || null
hasSelectedDoc(a) == \E j \in 1 .. Len(a.documents) : a.documents[j].id = a.selectedId
selectedDoc(a) ==
    a.documents[CHOOSE j \in 1 .. Len(a.documents) : a.documents[j].id = a.selectedId]

\* a click on a document of the list: the selection changes, and the load
\* effect, which depends on selectedId, runs again
SelectDocument(id) ==
    /\ id \in {app.documents[j].id : j \in 1 .. Len(app.documents)}
    /\ id # app.selectedId
    /\ app' = [load(setSelectedId(app, id), _documents, _ownedDocuments,
                    _sharedDocuments)
                  EXCEPT !.alert = ""]
    /\ UNCHANGED <<contractVars, chainVars, last, env>>

\* typing in the body editor, which is shown while a document is selected
EditDraft(text) ==
    /\ hasSelectedDoc(app)
    /\ text # app.bodyDraft
    /\ app' = [app EXCEPT !.bodyDraft = text, !.alert = ""]
    /\ UNCHANGED <<contractVars, chainVars, last, env>>

\* createDocument up to its first await
Begin_createDocument ==
    /\ ~app.creating
    /\ app' = [app EXCEPT !.creating = TRUE,
                          !.alert = ""]
    /\ UNCHANGED <<contractVars, chainVars, last, env>>

\* createDocument from its first await on: the transaction is mined and the
\* new document selected, or something on the way throws
End_createDocument(docName, generatedKey) ==
    LET failed == [app EXCEPT !.creating = FALSE,
                              !.alert = CreateFailed]
        newId == _nextId
    IN  /\ app.creating
        /\ \/ /\ Len(events) < MaxEvents
              /\ App_createDocument(address, docName, generatedKey)
              /\ app' = IF last'.err = ""
                        THEN [load(setSelectedId(app, newId), _documents',
                                   _ownedDocuments', _sharedDocuments')
                                 EXCEPT !.creating = FALSE,
                                        !.alert = ""]
                        ELSE failed
           \/ /\ UNCHANGED <<contractVars, chainVars, last>>
              /\ app' = failed
        /\ UNCHANGED env

\* decryptAccessKey up to its first await
Begin_decryptAccessKey ==
    /\ ~app.decryptingKey
    /\ app' = IF ~hasSelectedDoc(app)
              THEN [app EXCEPT !.alert = MissingDocument]
              ELSE [app EXCEPT !.decryptingKey = TRUE,
                               !.keyJob = [handle |-> selectedDoc(app).accessKeyHandle],
                               !.alert = ""]
    /\ UNCHANGED <<contractVars, chainVars, last, env>>

\* instance.userDecrypt answers an account the engine allows on the handle,
\* for a contract it allows as well
userDecryptAllowed(handle) ==
    /\ <<handle, address>> \in acl
    /\ <<handle, ThisAddress>> \in acl

\* decryptAccessKey from its first await on: the relayer hands the key back,
\* or the signature or the relayer's call throws
End_decryptAccessKey ==
    /\ app.decryptingKey
    /\ \/ /\ userDecryptAllowed(app.keyJob.handle)
          /\ app' = [app EXCEPT !.documentKey = ClearOf(app.keyJob.handle),
                                !.decryptingKey = FALSE, !.keyJob = IdleKeyJob,
                                !.alert = ""]
       \/ app' = [app EXCEPT !.decryptingKey = FALSE, !.keyJob = IdleKeyJob,
                             !.alert = KeyFailed]
    /\ UNCHANGED <<contractVars, chainVars, last, env>>

\* faulty variant: the body is opened whether or not a key was recovered
Begin_decryptBody_noKeyCheck ==
    /\ ~app.decryptingBody
    /\ app' = IF ~hasSelectedDoc(app)
              THEN [app EXCEPT !.alert = KeyFirst]
              ELSE [app EXCEPT !.decryptingBody = TRUE,
                               !.bodyJob = [payload |-> selectedDoc(app).encryptedBody,
                                            key |-> app.documentKey],
                               !.alert = ""]
    /\ UNCHANGED <<contractVars, chainVars, last, env>>

\* decryptBody up to its first await
Begin_decryptBody ==
    /\ ~app.decryptingBody
    /\ app' = IF app.documentKey = "" \/ ~hasSelectedDoc(app)
              THEN [app EXCEPT !.alert = KeyFirst]
              ELSE [app EXCEPT !.decryptingBody = TRUE,
                               !.bodyJob = [payload |-> selectedDoc(app).encryptedBody,
                                            key |-> app.documentKey],
                               !.alert = ""]
    /\ UNCHANGED <<contractVars, chainVars, last, env>>

\* faulty variant: a body that does not open is shown as an empty one
End_decryptBody_fallsBack ==
    LET clear == decryptBodyWithKey(app.bodyJob.payload, app.bodyJob.key)
    IN  /\ app.decryptingBody
        /\ app' = [app EXCEPT !.decryptedBody = IF clear.err = "" THEN clear.text ELSE "",
                              !.bodyDraft = IF clear.err = "" THEN clear.text ELSE "",
                              !.decryptingBody = FALSE, !.bodyJob = IdleBodyJob,
                              !.alert = ""]
        /\ UNCHANGED <<contractVars, chainVars, last, env>>

\* decryptBody from its first await on: the envelope opens, or it throws
End_decryptBody ==
    LET clear == decryptBodyWithKey(app.bodyJob.payload, app.bodyJob.key)
    IN  /\ app.decryptingBody
        /\ app' = IF clear.err = ""
                  THEN [app EXCEPT !.decryptedBody = clear.text,
                                   !.bodyDraft = clear.text,
                                   !.decryptingBody = FALSE, !.bodyJob = IdleBodyJob,
                                   !.alert = ""]
                  ELSE [app EXCEPT !.decryptingBody = FALSE, !.bodyJob = IdleBodyJob,
                                   !.alert = BodyFailed]
        /\ UNCHANGED <<contractVars, chainVars, last, env>>

\* saveBody up to its first await
Begin_saveBody ==
    /\ ~app.savingBody
    /\ app' = IF app.documentKey = "" \/ ~hasSelectedDoc(app)
              THEN [app EXCEPT !.alert = KeyFirst]
              ELSE [app EXCEPT !.savingBody = TRUE,
                               !.saveJob = [id |-> selectedDoc(app).id,
                                            draft |-> app.bodyDraft,
                                            key |-> app.documentKey],
                               !.alert = ""]
    /\ UNCHANGED <<contractVars, chainVars, last, env>>

\* saveBody from its first await on: the draft is sealed and the transaction
\* mined, or something on the way throws
End_saveBody(iv) ==
    LET failed == [app EXCEPT !.savingBody = FALSE, !.saveJob = IdleSaveJob,
                              !.alert = SaveFailed]
    IN  /\ app.savingBody
        /\ \/ /\ Len(events) < MaxEvents
              /\ App_saveBody(address, app.saveJob.id, app.saveJob.draft,
                              app.saveJob.key, iv)
              /\ IF last'.err = ""
                 THEN \E refetched \in
                         refetch([app EXCEPT !.decryptedBody = app.saveJob.draft],
                                 _documents', _ownedDocuments', _sharedDocuments') :
                         app' = [refetched EXCEPT !.savingBody = FALSE,
                                                  !.saveJob = IdleSaveJob,
                                                  !.alert = ""]
                 ELSE app' = failed
           \/ /\ UNCHANGED <<contractVars, chainVars, last>>
              /\ app' = failed
        /\ UNCHANGED env

\* grantAccess up to its first await
Begin_grantAccess(granteeAddress) ==
    /\ ~app.granting
    /\ app' = IF ~hasSelectedDoc(app)
              THEN [app EXCEPT !.alert = SelectFirst]
              ELSE IF ~isAddress(granteeAddress)
              THEN [app EXCEPT !.alert = InvalidGrantee]
              ELSE [app EXCEPT !.granting = TRUE,
                               !.grantJob = [id |-> selectedDoc(app).id],
                               !.alert = ""]
    /\ UNCHANGED <<contractVars, chainVars, last, env>>

\* faulty variant: the flag is lowered after the awaits instead of in a finally
\* block, so a throw leaves it up
End_grantAccess_noFinally(granteeAddress) ==
    LET failed == [app EXCEPT !.alert = GrantFailed]
    IN  /\ app.granting
        /\ isAddress(granteeAddress)
        /\ \/ /\ Len(events) < MaxEvents
              /\ App_grantAccess(address, app.grantJob.id, granteeAddress)
              /\ app' = IF last'.err = ""
                        THEN [app EXCEPT !.granting = FALSE, !.grantJob = IdleGrantJob,
                                         !.alert = ""]
                        ELSE failed
           \/ /\ UNCHANGED <<contractVars, chainVars, last>>
              /\ app' = failed
        /\ UNCHANGED env

\* grantAccess from its first await on: the transaction is mined, or it
\* reverts, or something on the way throws.  granteeAddress is what the field
\* held at the click, which let any well-formed address through.
End_grantAccess(granteeAddress) ==
    LET failed == [app EXCEPT !.granting = FALSE, !.grantJob = IdleGrantJob,
                              !.alert = GrantFailed]
    IN  /\ app.granting
        /\ isAddress(granteeAddress)
        /\ \/ /\ Len(events) < MaxEvents
              /\ App_grantAccess(address, app.grantJob.id, granteeAddress)
              /\ app' = IF last'.err = ""
                        THEN [app EXCEPT !.granting = FALSE, !.grantJob = IdleGrantJob,
                                         !.alert = ""]
                        ELSE failed
           \/ /\ UNCHANGED <<contractVars, chainVars, last>>
              /\ app' = failed
        /\ UNCHANGED env

(* --------------------------- specification ----------------------------- *)
\* faulty variant: the id counter starts at 0
Init_countsFromZero ==
    /\ _nextId = 0
    /\ _documents = [i \in Ids |-> EmptyDocument]
    /\ _ownedDocuments = [a \in Addresses |-> <<>>]
    /\ _sharedDocuments = [a \in Addresses |-> <<>>]
    /\ _isSharedWith = [i \in Ids |-> [a \in Addresses |-> FALSE]]
    /\ acl = {}
    /\ events = <<>>
    /\ blockNumber = 1
    /\ blockTimestamp = 1
    /\ last = Call("deploy", ZeroAddress, 0, "", "", NoHandle,
                   ZeroAddress, "")
    /\ BrowserInit

Init ==
    /\ _nextId = 1
    /\ _documents = [i \in Ids |-> EmptyDocument]
    /\ _ownedDocuments = [a \in Addresses |-> <<>>]
    /\ _sharedDocuments = [a \in Addresses |-> <<>>]
    /\ _isSharedWith = [i \in Ids |-> [a \in Addresses |-> FALSE]]
    /\ acl = {}
    /\ events = <<>>
    /\ blockNumber = 1
    /\ blockTimestamp = 1
    /\ last = Call("deploy", ZeroAddress, 0, "", "", NoHandle,
                   ZeroAddress, "")
    /\ BrowserInit

\* A reverted transaction leaves nothing behind but the record of itself, and
\* neither does a read, so whatever can follow one can follow the state
\* before it, with the same effect.  The ledger is therefore explored from
\* the states that successful transactions and blocks reach, with every
\* reverted call and every read tried at each, while the event log has room
\* for one more notification.
Settled ==
    /\ last.err = ""
    /\ last.op # "getDocument"
    /\ Len(events) < MaxEvents

Next ==
    \/ /\ Settled
       /\ \E s \in Signers, n \in Names, b \in Bodies, k \in Handles, p \in Proofs :
              createDocument(s, n, b, k, p)
       /\ UNCHANGED browserVars
    \/ /\ Settled
       /\ \E s \in Signers, i \in Ids, b \in Bodies : updateDocumentBody(s, i, b)
       /\ UNCHANGED browserVars
    \/ /\ Settled
       /\ \E s \in Signers, i \in Ids, g \in Addresses : grantAccess(s, i, g)
       /\ UNCHANGED browserVars
    \/ /\ Settled
       /\ \E s \in Signers, i \in Ids : ViewDocument(s, i)
       /\ UNCHANGED browserVars
    \/ /\ Settled
       /\ NewBlock
       /\ UNCHANGED browserVars

Spec == Init /\ [][Next]_vars

\* the ledger when every transaction comes from the browser client
NextClient ==
    \/ /\ Settled
       /\ \E a \in Signers, n \in DocNames, k \in ClearKeys :
              App_createDocument(a, n, k)
       /\ UNCHANGED browserVars
    \/ /\ Settled
       /\ \E a \in Signers, i \in Ids, d \in Drafts, k \in RecoverableKeys,
              iv \in Nonces : App_saveBody(a, i, d, k, iv)
       /\ UNCHANGED browserVars
    \/ /\ Settled
       /\ \E a \in Signers, i \in Ids, g \in Addresses : App_grantAccess(a, i, g)
       /\ UNCHANGED browserVars
    \/ /\ Settled
       /\ NewBlock
       /\ UNCHANGED browserVars

SpecClient == Init /\ [][NextClient]_vars

\* the envelope module on its own: bodies are sealed and payloads opened, under
\* any key, in any order.  Opening a payload leaves nothing behind but the
\* record of the call, so the calls are explored from the states the sealing
\* calls reach, with every opening call tried at each.
NextEnvelope ==
    \/ /\ env.op # "decrypt"
       /\ \E body \in Drafts, addressKey \in EnvelopeKeys :
              EncryptBody(body, addressKey)
       /\ UNCHANGED <<contractVars, chainVars, last, app>>
    \/ /\ env.op # "decrypt"
       /\ \E addressKey \in EnvelopeKeys :
              \/ DecryptBody("", addressKey, 0, "none")
              \/ \E source \in 1 .. Len(env.sealed),
                     damage \in {"none", "truncated", "tampered"} :
                    /\ env.sealed[source].payload # ""
                    /\ \E payload \in Damaged(env.sealed[source].payload, damage) :
                          DecryptBody(payload, addressKey, source, damage)
       /\ UNCHANGED <<contractVars, chainVars, last, app>>

SpecEnvelope == Init /\ [][NextEnvelope]_vars

\* the browser client of one account on the ledger: its handlers start on a
\* click and end when what they await has answered.  A handler that turns
\* the click down, or that ends in its catch block, leaves the component as
\* it would be had the click never been made, but for what it told the user
\* (and, after a reverted transaction, the ledger's record of the call).  The
\* component is therefore explored from the states the other steps reach,
\* with every refused click and every failing end tried at each.
Attentive == app.alert = ""

\* the handlers that have begun and not ended
InFlight ==
    Cardinality({f \in {"creating", "decryptingKey", "decryptingBody",
                        "savingBody", "granting"} : app[f]})

\* a handler may begin while fewer than MaxInFlight others are awaiting
Free == Attentive /\ InFlight < MaxInFlight

NextApp ==
    \/ Attentive /\ \E id \in Ids : SelectDocument(id)
    \/ Attentive /\ \E text \in Drafts : EditDraft(text)
    \/ Free /\ Begin_createDocument
    \/ Attentive /\ \E n \in {"Doc"}, k \in ClearKeys : End_createDocument(n, k)
    \/ Free /\ Begin_decryptAccessKey
    \/ Attentive /\ End_decryptAccessKey
    \/ Free /\ Begin_decryptBody
    \/ Attentive /\ End_decryptBody
    \/ Free /\ Begin_saveBody
    \/ Attentive /\ \E iv \in {"000000000001"} : End_saveBody(iv)
    \/ Free /\ \E g \in GranteeInputs : Begin_grantAccess(g)
    \/ Attentive /\ \E g \in GranteeInputs : End_grantAccess(g)

SpecApp == Init /\ [][NextApp]_vars

\* the same client when what a handler awaits always answers: a handler that
\* has begun comes to its end, whatever the user was told in between.  What
\* is typed into the editor and which key a document was created with bear
\* on no flag, so the editor is left alone and every document gets one key.
NextAppLive ==
    \/ Attentive /\ \E id \in Ids : SelectDocument(id)
    \/ Free /\ Begin_createDocument
    \/ \E n \in {"Doc"}, k \in {"0xA1"} : End_createDocument(n, k)
    \/ Free /\ Begin_decryptAccessKey
    \/ End_decryptAccessKey
    \/ Free /\ Begin_decryptBody
    \/ End_decryptBody
    \/ Free /\ Begin_saveBody
    \/ \E iv \in {"000000000001"} : End_saveBody(iv)
    \/ Free /\ \E g \in GranteeInputs : Begin_grantAccess(g)
    \/ \E g \in GranteeInputs : End_grantAccess(g)

\* every awaited call returns or throws, so the handler awaiting it goes on
Answered ==
    /\ WF_vars(\E n \in {"Doc"}, k \in {"0xA1"} : End_createDocument(n, k))
    /\ WF_vars(End_decryptAccessKey)
    /\ WF_vars(End_decryptBody)
    /\ WF_vars(\E iv \in {"000000000001"} : End_saveBody(iv))
    /\ WF_vars(\E g \in GranteeInputs : End_grantAccess(g))

SpecAppLive == Init /\ [][NextAppLive]_vars /\ Answered

\* the ledger once "owner" has created document 1 and granted "bob" access
\* to it: both accounts are then allowed on its key
RaceInit ==
    /\ _nextId = 2
    /\ _documents = [i \in Ids |->
           IF i = 1
           THEN [owner |-> "owner", name |-> "Doc", encryptedBody |-> "",
                 accessKey |-> "h1", createdAt |-> 1, updatedAt |-> 1,
                 lastEditorBlock |-> 1]
           ELSE EmptyDocument]
    /\ _ownedDocuments = [a \in Addresses |-> IF a = "owner" THEN <<1>> ELSE <<>>]
    /\ _sharedDocuments = [a \in Addresses |-> IF a = "bob" THEN <<1>> ELSE <<>>]
    /\ _isSharedWith = [i \in Ids |-> [a \in Addresses |-> i = 1 /\ a = "bob"]]
    /\ acl = {<<"h1", ThisAddress>>, <<"h1", "owner">>, <<"h1", "bob">>}
    /\ events = << [event |-> "DocumentCreated", documentId |-> 1,
                    who |-> "owner", text |-> "Doc"],
                   [event |-> "AccessGranted", documentId |-> 1,
                    who |-> "bob", text |-> ""] >>
    /\ blockNumber = 1
    /\ blockTimestamp = 1
    /\ last = Call("grantAccess", "owner", 1, "", "", NoHandle, "bob", "")
    /\ BrowserInit

\* both accounts have updates in flight; the ledger includes them one after
\* the other, in either order and in the same block or not
NextRace ==
    \/ /\ last.err = ""
       /\ Len(events) < 2 + MaxRaceUpdates
       /\ \E s \in Signers, i \in Ids, b \in Bodies : updateDocumentBody(s, i, b)
       /\ UNCHANGED browserVars
    \/ /\ last.err = ""
       /\ NewBlock
       /\ UNCHANGED browserVars

SpecRace == RaceInit /\ [][NextRace]_vars

(* ------------------------- what a step was ----------------------------- *)
\* the step just taken was this call, and it went through
Succeeded(op) == last'.op = op /\ last'.err = ""

Unauthorized == "Sender not authorized for key"
NotFound == "Document not found"

(* ------------------------------- C1 ------------------------------------ *)
\* C1: updateDocumentBody on an existing document by a caller that the engine
\* does not allow on the document's key reverts with "Sender not authorized
\* for key", and the document's body, updatedAt and lastEditorBlock stay as
\* they were.
C1_UnauthorizedUpdateRejected ==
    [][\A s \in Signers, i \in Ids :
          ( /\ last'.op = "updateDocumentBody"
            /\ last'.sender = s
            /\ last'.id = i
            /\ documentExists(i)
            /\ ~isSenderAllowed(_documents[i].accessKey, s) )
          => ( /\ last'.err = Unauthorized
               /\ _documents'[i].encryptedBody = _documents[i].encryptedBody
               /\ _documents'[i].updatedAt = _documents[i].updatedAt
               /\ _documents'[i].lastEditorBlock = _documents[i].lastEditorBlock )
      ]_vars

\* an update of an existing document was refused to a caller without permission
C1_Witness ==
    /\ last.op = "updateDocumentBody"
    /\ last.err = Unauthorized
    /\ documentExists(last.id)
    /\ ~isSenderAllowed(_documents[last.id].accessKey, last.sender)

(* ------------------------------- C2 ------------------------------------ *)
\* C2: a successful grantAccess(id, P) marks the pair (id, P) as shared, the
\* mark is never cleared, and from then on every updateDocumentBody(id, b) by
\* P goes through and leaves b as the document's body.
C2_GranteeCanUpdate ==
    [][ /\ ( Succeeded("grantAccess")
             => _isSharedWith'[last'.id][last'.grantee] )
        /\ \A i \in Ids, P \in Signers :
              _isSharedWith[i][P] =>
                 /\ _isSharedWith'[i][P]
                 /\ ( ( /\ last'.op = "updateDocumentBody"
                        /\ last'.sender = P
                        /\ last'.id = i )
                      => ( /\ last'.err = ""
                           /\ _documents'[i].encryptedBody = last'.body ) )
      ]_vars

\* a principal other than the owner, granted access earlier, has updated the body
C2_Witness ==
    /\ last.op = "updateDocumentBody"
    /\ last.err = ""
    /\ last.sender # _documents[last.id].owner
    /\ _isSharedWith[last.id][last.sender]
    /\ _documents[last.id].encryptedBody = last.body
    /\ last.body # ""

(* ------------------------------- C3 ------------------------------------ *)
\* C3 as stated: every successful updateDocumentBody leaves updatedAt strictly
\* greater than it was, also after a creation or an update at the same ledger
\* time.
C3_UpdatedAtStrictlyIncreases ==
    [][Succeeded("updateDocumentBody")
          => _documents'[last'.id].updatedAt > _documents[last'.id].updatedAt
      ]_vars

\* C3 as amended: every successful updateDocumentBody sets updatedAt to the
\* ledger time of its block, which is never less than the value before, and is
\* greater exactly when the update is in a later block than the creation or
\* update that set the value before.
C3_UpdatedAtIsLedgerTime ==
    [][Succeeded("updateDocumentBody") =>
          LET before == _documents[last'.id]
              after == _documents'[last'.id]
          IN  /\ after.updatedAt = blockTimestamp
              /\ after.updatedAt >= before.updatedAt
              /\ (after.updatedAt > before.updatedAt
                    <=> blockNumber > before.lastEditorBlock)
      ]_vars

\* a document was updated in a later block than the one that created it
C3_Witness ==
    /\ last.op = "updateDocumentBody"
    /\ last.err = ""
    /\ _documents[last.id].updatedAt > _documents[last.id].createdAt

(* ------------------------------- C4 ------------------------------------ *)
IsCreated(e) == e.event = "DocumentCreated"

\* C4: the ids handed out by the successful createDocument calls are, in call
\* order, 1, 2, 3, ...: the k-th DocumentCreated event carries id k, a
\* successful call returns the number of creations so far, and a reverted call
\* leaves the counter at the id it would have been given.
C4_IdsSequential ==
    LET created == SelectSeq(events, IsCreated)
    IN  /\ Len(created) = _nextId - 1
        /\ \A k \in 1 .. Len(created) : created[k].documentId = k
        /\ (last.op = "createDocument" /\ last.err = ""
               => last.id = Len(created))
        /\ (last.op = "createDocument" /\ last.err # ""
               => last.id = _nextId)

\* a second document, by another creator than the first, was given id 2
C4_Witness ==
    /\ last.op = "createDocument"
    /\ last.err = ""
    /\ last.id = 2
    /\ _documents[1].owner # _documents[2].owner

(* ------------------------------- C5 ------------------------------------ *)
\* C5: createDocument with an empty name reverts with "Name required" for
\* every caller, body, key and proof, and changes nothing of the contract's
\* state (so totalDocuments() stays as it was).
C5_EmptyNameRejected ==
    [][(last'.op = "createDocument" /\ last'.name = "")
          => ( /\ last'.err = "Name required"
               /\ contractVars' = contractVars )
      ]_vars

\* an empty name was refused after a first document had been created
C5_Witness ==
    /\ last.op = "createDocument"
    /\ last.name = ""
    /\ last.err = "Name required"
    /\ last.key \in Handles
    /\ totalDocuments = 1

(* ------------------------------- C6 ------------------------------------ *)
\* C6: grantAccess with address(0) as grantee reverts with "Invalid grantee"
\* for every document id, existing or not, and every caller, allowed or not,
\* and changes nothing of the contract's state.
C6_NullGranteeRejected ==
    [][(last'.op = "grantAccess" /\ last'.grantee = ZeroAddress)
          => ( /\ last'.err = "Invalid grantee"
               /\ contractVars' = contractVars )
      ]_vars

\* the null grantee was refused on an id that holds no document
C6_Witness ==
    /\ last.op = "grantAccess"
    /\ last.grantee = ZeroAddress
    /\ last.err = "Invalid grantee"
    /\ ~documentExists(last.id)

(* ------------------------------- C7 ------------------------------------ *)
\* the reasons each call can revert with
RevertReasons(op) ==
    CASE op = "createDocument" -> {"Name required", "Invalid proof"}
      [] op = "updateDocumentBody" -> {NotFound, Unauthorized}
      [] op = "grantAccess" -> {"Invalid grantee", NotFound, Unauthorized}
      [] op = "getDocument" -> {NotFound}
      [] OTHER -> {}

\* C7: a call that fails leaves the records, the id counter, the owner and
\* share indexes, the share marks, the engine's allowances and the event log
\* exactly as they were, and fails with one of the reasons of its kind.
C7_FailureIsAtomic ==
    [][last'.err # ""
          => ( /\ contractVars' = contractVars
               /\ last'.err \in RevertReasons(last'.op) )
      ]_vars

\* a creation was refused for its proof after a first document had been created
C7_Witness ==
    /\ last.op = "createDocument"
    /\ last.err = "Invalid proof"
    /\ totalDocuments = 1
    /\ Len(events) = 1

(* ------------------------------- C8 ------------------------------------ *)
\* the ids 1 .. n whose document is owned by owner, in increasing order
RECURSIVE OwnedUpTo(_, _)
OwnedUpTo(owner, n) ==
    IF n = 0 THEN <<>>
    ELSE IF _documents[n].owner = owner
         THEN Append(OwnedUpTo(owner, n - 1), n)
         ELSE OwnedUpTo(owner, n - 1)

\* C8: getOwnedDocumentIds(O) is, for every address O, the increasing sequence
\* of the ids of the documents owned by O, each once; the id a successful
\* createDocument returned is the last entry of its sender's sequence; and
\* totalDocuments() is the number of successful creations.
C8_OwnedIndexExact ==
    /\ \A O \in Addresses :
          getOwnedDocumentIds(O) = OwnedUpTo(O, totalDocuments)
    /\ (last.op = "createDocument" /\ last.err = ""
           => LET mine == getOwnedDocumentIds(last.sender)
              IN  Len(mine) > 0 /\ mine[Len(mine)] = last.id)
    /\ totalDocuments = Len(SelectSeq(events, IsCreated))

\* two creators own one document each: the second id is in its creator's
\* sequence alone
C8_Witness ==
    /\ totalDocuments = 2
    /\ last.op = "createDocument"
    /\ last.err = ""
    /\ getOwnedDocumentIds(last.sender) = <<2>>
    /\ getOwnedDocumentIds(_documents[1].owner) = <<1>>

(* ------------------------------- C9 ------------------------------------ *)
\* C9: getSharedDocumentIds(P) holds no id twice, for every address P.
C9_SharedIndexNoDuplicates ==
    \A P \in Addresses :
       LET shared == getSharedDocumentIds(P)
       IN  \A j, k \in 1 .. Len(shared) : j # k => shared[j] # shared[k]

\* grantAccess went through twice for the same document and grantee
C9_Witness ==
    /\ last.op = "grantAccess"
    /\ last.err = ""
    /\ \E j, k \in 1 .. Len(events) :
          /\ j < k
          /\ events[j] = events[k]
          /\ events[k].event = "AccessGranted"
          /\ events[k].documentId = last.id
          /\ events[k].who = last.grantee
    /\ getSharedDocumentIds(last.grantee) = <<last.id>>

(* ------------------------------- C10 ----------------------------------- *)
\* C10: for every existing document the engine allows its owner and the vault
\* itself on the document's key, and no updateDocumentBody or grantAccess by
\* the owner on the owner's document is refused as unauthorized.
C10_OwnerAndVaultAllowed ==
    /\ \A i \in Ids :
          documentExists(i)
          => ( /\ isSenderAllowed(_documents[i].accessKey, _documents[i].owner)
               /\ <<_documents[i].accessKey, ThisAddress>> \in acl )
    /\ ( ( /\ last.op \in {"updateDocumentBody", "grantAccess"}
           /\ documentExists(last.id)
           /\ last.sender = _documents[last.id].owner )
         => last.err # Unauthorized )

\* an owner granted access on the owner's own document to somebody else
C10_Witness ==
    /\ last.op = "grantAccess"
    /\ last.err = ""
    /\ last.sender = _documents[last.id].owner
    /\ last.grantee # last.sender
    /\ <<_documents[last.id].accessKey, ThisAddress>> \in acl

(* ------------------------------- C11 ----------------------------------- *)
\* C11: right after a successful createDocument(name, body, key, proof) by A
\* that returned id, getDocument(id) answers every caller with owner A, the
\* name, the body as passed (empty or not), the key handle that was imported,
\* and createdAt equal to updatedAt (both the ledger time of the creation).
C11_CreatedRecordReadsBack ==
    (last.op = "createDocument" /\ last.err = "")
    => \A s \in Signers :
          LET got == getDocument(s, last.id)
          IN  /\ got.err = ""
              /\ got.owner = last.sender
              /\ got.name = last.name
              /\ got.encryptedBody = last.body
              /\ got.accessKey = last.key
              /\ got.createdAt = got.updatedAt
              /\ got.createdAt = blockTimestamp

\* a second document was created with a body that is not empty, in a later
\* block than the first
C11_Witness ==
    /\ last.op = "createDocument"
    /\ last.err = ""
    /\ last.id = 2
    /\ last.body # ""
    /\ getDocument(last.sender, 2).createdAt > getDocument(last.sender, 1).createdAt

(* ------------------------------- C12 ----------------------------------- *)
\* every text the ledger shows: the fields of the records, the engine's
\* allowances, the notifications, and the arguments of the last transaction
\* (the indexes hold ids only, which are numbers)
LedgerTexts ==
    UNION {{_documents[i].owner, _documents[i].name,
            _documents[i].encryptedBody, _documents[i].accessKey} : i \in Ids}
    \cup UNION {{x[1], x[2]} : x \in acl}
    \cup UNION {{events[j].who, events[j].text} : j \in 1 .. Len(events)}
    \cup {last.sender, last.name, last.body, last.key, last.grantee}

\* C12: when the transactions come from the client, no text the ledger shows
\* is the cleartext of an access key, in the case it was generated in or in
\* lower case; what createDocument is handed and stores as the key is the
\* relayer's handle of it.
C12_NoClearKeyOnLedger ==
    /\ \A key \in ClearKeys :
          /\ key \notin LedgerTexts
          /\ toLowerCase(key) \notin LedgerTexts
    /\ \A i \in Ids : documentExists(i) => _documents[i].accessKey \in Handles
    /\ (last.op = "createDocument" => last.key \in Handles /\ last.body = "")

\* a client created a document and later stored a draft encrypted under the
\* key recovered from that document's handle
C12_Witness ==
    /\ last.op = "updateDocumentBody"
    /\ last.err = ""
    /\ \E iv \in Nonces :
          last.body = encryptBodyWithKey("draft",
                          ClearOf(_documents[last.id].accessKey), iv)
    /\ _documents[last.id].encryptedBody = last.body

(* ------------------------------- C13 ----------------------------------- *)
\* the payloads encryptBodyWithKey can return for a draft that is not empty,
\* under the key held behind a handle
EnvelopesUnder(handle) ==
    {encryptBodyWithKey(d, ClearOf(handle), iv) : d \in Drafts \ {""}, iv \in Nonces}

\* C13 as stated: the body held in every document record is empty or a
\* payload produced by encrypting under the document's own key; no other
\* text is ever stored as a body.
C13_OnlyEnvelopesStored ==
    \A i \in Ids :
       documentExists(i)
       => \/ _documents[i].encryptedBody = ""
          \/ _documents[i].encryptedBody \in EnvelopesUnder(_documents[i].accessKey)

(* ------------------------------- C14 ----------------------------------- *)
\* C14: for every id, documentExists(id) holds exactly when
\* 1 <= id <= totalDocuments(), and exactly when the owner field of the slot
\* is an account; id 0 is never handed out: documentExists(0) is false and no
\* index and no notification carries 0.
C14_ExistsIffAssigned ==
    /\ \A id \in Ids :
          /\ documentExists(id) <=> (1 <= id /\ id <= totalDocuments)
          /\ documentExists(id) <=> _documents[id].owner \in Signers
    /\ ~documentExists(0)
    /\ \A a \in Addresses :
          /\ \A k \in 1 .. Len(getOwnedDocumentIds(a)) : getOwnedDocumentIds(a)[k] # 0
          /\ \A k \in 1 .. Len(getSharedDocumentIds(a)) : getSharedDocumentIds(a)[k] # 0
    /\ \A j \in 1 .. Len(events) : events[j].documentId # 0

\* with one document created, a call on id 2 found nothing there
C14_Witness ==
    /\ totalDocuments = 1
    /\ documentExists(1)
    /\ last.id = 2
    /\ last.err = NotFound

(* ------------------------------- C15 ----------------------------------- *)
\* C15: whatever step is taken (a creation, an update or a grant, by any
\* account, successful or not), every document that exists keeps its owner,
\* its name, its key handle and its createdAt.
C15_CreationFieldsFrozen ==
    [][\A i \in Ids :
          documentExists(i)
          => ( /\ _documents'[i].owner = _documents[i].owner
               /\ _documents'[i].name = _documents[i].name
               /\ _documents'[i].accessKey = _documents[i].accessKey
               /\ _documents'[i].createdAt = _documents[i].createdAt )
      ]_vars

\* a grantee, not the owner, updated a document in a later block than the one
\* it was created in
C15_Witness ==
    /\ last.op = "updateDocumentBody"
    /\ last.err = ""
    /\ last.sender # _documents[last.id].owner
    /\ _documents[last.id].createdAt < blockTimestamp
    /\ _documents[last.id].updatedAt = blockTimestamp

(* ------------------------------- C16 ----------------------------------- *)
\* C16: whatever step is taken, a document that exists still exists after
\* it, and totalDocuments() is not less than it was.
C16_DocumentsNeverRemoved ==
    [][ /\ \A i \in Ids :
              documentExists(i) => _documents'[i].owner # ZeroAddress
        /\ _nextId' - 1 >= totalDocuments
      ]_vars

\* the empty body was stored over a body that was not empty, and the
\* document is still there
C16_Witness ==
    /\ last.op = "updateDocumentBody"
    /\ last.err = ""
    /\ last.body = ""
    /\ documentExists(last.id)
    /\ \E j \in 1 .. Len(events) :
          /\ events[j].documentId = last.id
          /\ events[j].event = "DocumentUpdated"
          /\ events[j].text # ""

(* ------------------------------- C17 ----------------------------------- *)
\* C17: whatever step is taken, every allowance the engine holds is kept, so
\* an account allowed on a document's key (by creation or by grantAccess)
\* stays allowed on it; every share mark that is set stays set; and every
\* entry of every shared index stays where it is.
C17_PermissionsOnlyGrow ==
    [][ /\ acl \subseteq acl'
        /\ \A i \in Ids, p \in Addresses :
              /\ ( documentExists(i) /\ isSenderAllowed(_documents[i].accessKey, p) )
                 => <<_documents'[i].accessKey, p>> \in acl'
              /\ _isSharedWith[i][p] => _isSharedWith'[i][p]
        /\ \A p \in Addresses :
              /\ Len(_sharedDocuments'[p]) >= Len(_sharedDocuments[p])
              /\ \A k \in 1 .. Len(_sharedDocuments[p]) :
                    _sharedDocuments'[p][k] = _sharedDocuments[p][k]
      ]_vars

\* after the owner granted an account access, and then updated the body
\* itself, the account is still marked, listed and allowed
C17_Witness ==
    /\ last.op = "updateDocumentBody"
    /\ last.err = ""
    /\ last.sender = _documents[last.id].owner
    /\ \E p \in Signers :
          /\ p # last.sender
          /\ _isSharedWith[last.id][p]
          /\ getSharedDocumentIds(p) = <<last.id>>
          /\ isSenderAllowed(_documents[last.id].accessKey, p)

(* ------------------------------- C18 ----------------------------------- *)
\* C18: when two allowed accounts have updates of one document included one
\* after the other, in whichever order, the body the document holds is the
\* newBody of the update included last, whatever the body before was, and the
\* log carries one DocumentUpdated notification for each of them, in the
\* order of inclusion, each with its own sender and body.
C18_LaterUpdateWins ==
    /\ \A i \in Ids :
          LET IsUpdateOf(e) == e.event = "DocumentUpdated" /\ e.documentId = i
              updates == SelectSeq(events, IsUpdateOf)
          IN  Len(updates) > 0
              => _documents[i].encryptedBody = updates[Len(updates)].text
    /\ ( (last.op = "updateDocumentBody" /\ last.err = "")
         => events[Len(events)] =
               [event |-> "DocumentUpdated", documentId |-> last.id,
                who |-> last.sender, text |-> last.body] )

\* two different accounts updated document 1 one right after the other with
\* different bodies, and the document holds the body of the second
C18_Witness ==
    /\ Len(events) >= 4
    /\ LET first == events[Len(events) - 1]
           second == events[Len(events)]
       IN  /\ first.event = "DocumentUpdated"
           /\ second.event = "DocumentUpdated"
           /\ first.documentId = second.documentId
           /\ first.who # second.who
           /\ first.text # second.text
           /\ first.text # ""
           /\ _documents[second.documentId].encryptedBody = second.text

(* ------------------------------- C19 ----------------------------------- *)
\* C19: a getDocument call changes nothing of the contract or the ledger
\* clock; on an id that holds a document it answers every caller, allowed on
\* the key or not, with the seven values of the record as they are stored;
\* on any other id it fails with "Document not found".
C19_GetDocumentOpenPureRead ==
    [][last'.op = "getDocument" =>
          /\ contractVars' = contractVars
          /\ chainVars' = chainVars
          /\ IF documentExists(last'.id)
             THEN /\ last'.err = ""
                  /\ LET got == getDocument(last'.sender, last'.id)
                         doc == _documents[last'.id]
                     IN  /\ got.err = ""
                         /\ got.name = doc.name
                         /\ got.encryptedBody = doc.encryptedBody
                         /\ got.accessKey = doc.accessKey
                         /\ got.owner = doc.owner
                         /\ got.createdAt = doc.createdAt
                         /\ got.updatedAt = doc.updatedAt
                         /\ got.lastEditorBlock = doc.lastEditorBlock
             ELSE last'.err = NotFound
      ]_vars

\* an account the engine does not allow on the key read a document whose
\* body is not empty
C19_Witness ==
    /\ last.op = "getDocument"
    /\ last.err = ""
    /\ ~isSenderAllowed(_documents[last.id].accessKey, last.sender)
    /\ getDocument(last.sender, last.id).encryptedBody # ""

(* ------------------------------- C20 ----------------------------------- *)
\* C20: every successful createDocument appends exactly one DocumentCreated
\* (id, sender, name) to the log, every successful updateDocumentBody exactly
\* one DocumentUpdated (id, sender, new body), also when the new body is the
\* stored one, every successful grantAccess exactly one AccessGranted (id,
\* grantee), also when the pair was shared already; a failed call, a read and
\* a new block leave the log as it is.
C20_LogMirrorsSuccesses ==
    [][ /\ Succeeded("createDocument")
           => events' = Append(events,
                  [event |-> "DocumentCreated", documentId |-> last'.id,
                   who |-> last'.sender, text |-> last'.name])
        /\ Succeeded("updateDocumentBody")
           => events' = Append(events,
                  [event |-> "DocumentUpdated", documentId |-> last'.id,
                   who |-> last'.sender, text |-> last'.body])
        /\ Succeeded("grantAccess")
           => events' = Append(events,
                  [event |-> "AccessGranted", documentId |-> last'.id,
                   who |-> last'.grantee, text |-> ""])
        /\ ( \/ last'.err # ""
             \/ last'.op \notin {"createDocument", "updateDocumentBody",
                                  "grantAccess"} )
           => events' = events
      ]_vars

\* the same account stored the same body twice in a row, and the log carries
\* a notification for each of the two updates
C20_Witness ==
    /\ last.op = "updateDocumentBody"
    /\ last.err = ""
    /\ Len(events) = 3
    /\ events[2] = events[3]
    /\ events[3].event = "DocumentUpdated"
    /\ events[3].text = _documents[last.id].encryptedBody

(* ------------------------------- C27 ----------------------------------- *)
\* C27: a successful updateDocumentBody(id, b) changes, of the record of id,
\* nothing but encryptedBody, updatedAt and lastEditorBlock, and appends one
\* notification; the id counter, every other record, the owned and shared
\* indexes (the caller's too), the share marks and the engine's allowances
\* are as they were.
C27_UpdateFrame ==
    [][Succeeded("updateDocumentBody") =>
          /\ _nextId' = _nextId
          /\ \A i \in Ids \ {last'.id} : _documents'[i] = _documents[i]
          /\ _documents'[last'.id] =
                [_documents[last'.id] EXCEPT
                    !.encryptedBody = _documents'[last'.id].encryptedBody,
                    !.updatedAt = _documents'[last'.id].updatedAt,
                    !.lastEditorBlock = _documents'[last'.id].lastEditorBlock]
          /\ _ownedDocuments' = _ownedDocuments
          /\ _sharedDocuments' = _sharedDocuments
          /\ _isSharedWith' = _isSharedWith
          /\ acl' = acl
          /\ Len(events') = Len(events) + 1
      ]_vars

\* with two documents on the ledger, the owner of the first stored a body in
\* it; the second still has the empty body it was created with
C27_Witness ==
    /\ totalDocuments = 2
    /\ last.op = "updateDocumentBody"
    /\ last.err = ""
    /\ last.id = 1
    /\ last.body # ""
    /\ _documents[2].encryptedBody = ""
    /\ getSharedDocumentIds(last.sender) = <<>>

(* ------------------------------- C28 ----------------------------------- *)
\* C28: a successful grantAccess(id, g) changes nothing but the share mark
\* of (id, g), the shared index of g and the allowance of g on the key of
\* id, and appends one notification; every record, every owned index, the
\* shared index of everybody else, every other mark and allowance and the id
\* counter are as they were.
C28_GrantFrame ==
    [][Succeeded("grantAccess") =>
          LET id == last'.id
              g == last'.grantee
          IN  /\ _nextId' = _nextId
              /\ _documents' = _documents
              /\ _ownedDocuments' = _ownedDocuments
              /\ \A p \in Addresses \ {g} :
                    _sharedDocuments'[p] = _sharedDocuments[p]
              /\ \A i \in Ids, p \in Addresses :
                    (i # id \/ p # g) => _isSharedWith'[i][p] = _isSharedWith[i][p]
              /\ acl' \ {<<_documents[id].accessKey, g>>}
                    = acl \ {<<_documents[id].accessKey, g>>}
              /\ Len(events') = Len(events) + 1
      ]_vars

\* a grant went through in a later block than the one the document was
\* created in, and the record still carries the time of its creation
C28_Witness ==
    /\ last.op = "grantAccess"
    /\ last.err = ""
    /\ blockTimestamp > _documents[last.id].updatedAt
    /\ blockNumber > _documents[last.id].lastEditorBlock
    /\ _isSharedWith[last.id][last.grantee]

(* ------------------------------- C29 ----------------------------------- *)
\* C29: on an id that holds no document (0, or an id above the counter),
\* updateDocumentBody, and grantAccess with a grantee other than address(0),
\* fail with "Document not found" for every caller, never with "Sender not
\* authorized for key".
C29_NotFoundBeforeUnauthorized ==
    [][ ( /\ \/ last'.op = "updateDocumentBody"
             \/ last'.op = "grantAccess" /\ last'.grantee # ZeroAddress
          /\ ~documentExists(last'.id) )
        => last'.err = NotFound
      ]_vars

\* an account that is allowed on the key of document 1 asked for a grant on
\* id 0 and was told that there is no such document
C29_Witness ==
    /\ last.op = "grantAccess"
    /\ last.id = 0
    /\ last.grantee # ZeroAddress
    /\ last.err = NotFound
    /\ documentExists(1)
    /\ isSenderAllowed(_documents[1].accessKey, last.sender)

(* ------------------------------- C30 ----------------------------------- *)
\* C30: grantAccess(id, g) on a document that exists, with g other than
\* address(0), goes through exactly for the callers the engine allows on the
\* document's key at that time, owner or not, and fails with "Sender not
\* authorized for key" for every other caller.
C30_GrantByAnyAllowed ==
    [][ ( /\ last'.op = "grantAccess"
          /\ last'.grantee # ZeroAddress
          /\ documentExists(last'.id) )
        => IF isSenderAllowed(_documents[last'.id].accessKey, last'.sender)
           THEN last'.err = ""
           ELSE last'.err = Unauthorized
      ]_vars

\* an account that was granted access, and does not own the document, has
\* itself granted access to a third address
C30_Witness ==
    /\ last.op = "grantAccess"
    /\ last.err = ""
    /\ last.sender # _documents[last.id].owner
    /\ _isSharedWith[last.id][last.sender]
    /\ last.grantee \notin {last.sender, _documents[last.id].owner}
    /\ isSenderAllowed(_documents[last.id].accessKey, last.grantee)

(* ------------------------------- C23 ----------------------------------- *)
\* C23: every payload encryptBodyWithKey produced for a body p under a key k,
\* the empty body included, opens under k to p; and two calls that sealed
\* the same body, not empty, under the same key drew different nonces and
\* produced different payloads (each of which opens to the body).
C23_EnvelopeRoundTrip ==
    /\ \A j \in 1 .. Len(env.sealed) :
          decryptBodyWithKey(env.sealed[j].payload, env.sealed[j].addressKey)
             = [err |-> "", text |-> env.sealed[j].body]
    /\ \A i, j \in 1 .. Len(env.sealed) :
          ( /\ i < j
            /\ env.sealed[i].body # ""
            /\ env.sealed[i].body = env.sealed[j].body
            /\ env.sealed[i].addressKey = env.sealed[j].addressKey )
          => ( /\ env.sealed[i].iv # env.sealed[j].iv
               /\ env.sealed[i].payload # env.sealed[j].payload )
    /\ ( env.op = "decrypt"
         => \A j \in 1 .. Len(env.sealed) :
               ( /\ env.arg = env.sealed[j].payload
                 /\ env.addressKey = env.sealed[j].addressKey )
               => env.out = [err |-> "", text |-> env.sealed[j].body] )

\* the same body was sealed twice under the same key, and the second payload
\* was opened under that key
C23_Witness ==
    /\ Len(env.sealed) = 2
    /\ env.sealed[1].body = "draft"
    /\ env.sealed[2].body = "draft"
    /\ env.sealed[1].addressKey = env.sealed[2].addressKey
    /\ env.op = "decrypt"
    /\ env.arg = env.sealed[2].payload
    /\ env.addressKey = env.sealed[2].addressKey
    /\ env.out = [err |-> "", text |-> "draft"]

(* ------------------------------- C24 ----------------------------------- *)
\* C24: decryptBodyWithKey of a payload that is not empty returns a text only
\* when the payload is one that was produced, undamaged, and the key handed
\* in derives the AES key it was sealed under, and the text is then the body
\* that was sealed; under a key deriving another AES key, and for every
\* truncated or tampered payload, it fails and returns no text.
C24_DecryptFailsClosed ==
    (env.op = "decrypt" /\ env.arg # "")
    => /\ env.out.err = ""
          => \E j \in 1 .. Len(env.sealed) :
                /\ env.arg = env.sealed[j].payload
                /\ deriveKey(env.addressKey) = deriveKey(env.sealed[j].addressKey)
                /\ env.out.text = env.sealed[j].body
       /\ env.out.err # "" => env.out = [err |-> DecryptionFailed]
       /\ ( \/ env.damage # "none"
            \/ /\ env.source > 0
               /\ deriveKey(env.addressKey)
                     # deriveKey(env.sealed[env.source].addressKey) )
          => env.out.err = DecryptionFailed

\* a payload that lost its last bytes, the nonce still whole, was refused
\* under the key it had been sealed with
C24_Witness ==
    /\ env.op = "decrypt"
    /\ env.out.err = DecryptionFailed
    /\ env.damage = "truncated"
    /\ env.addressKey = env.sealed[env.source].addressKey
    /\ fromBase64(env.arg).err = ""
    /\ Len(fromBase64(env.arg).bytes) > NonceLength

(* ------------------------------- C25 ----------------------------------- *)
\* C25: encryptBodyWithKey of the empty body returns the empty payload under
\* every key and draws no nonce; of any other body it never returns the
\* empty payload; decryptBodyWithKey of the empty payload returns the empty
\* text under every key, whatever was sealed under whichever key before.
C25_EmptyBodyConvention ==
    /\ \A j \in 1 .. Len(env.sealed) :
          /\ env.sealed[j].body = "" <=> env.sealed[j].payload = ""
          /\ env.sealed[j].body = "" => env.sealed[j].iv = ""
    /\ \A k \in EnvelopeKeys, iv \in Nonces :
          encryptBodyWithKey("", k, iv) = ""
    /\ ( env.op = "encrypt" => (env.arg = "" <=> env.out.text = "") )
    /\ ( (env.op = "decrypt" /\ env.arg = "")
         => env.out = [err |-> "", text |-> ""] )

\* the empty body was sealed under one key and the empty payload opened under
\* a key that derives another AES key
C25_Witness ==
    /\ env.op = "decrypt"
    /\ env.arg = ""
    /\ env.out = [err |-> "", text |-> ""]
    /\ \E j \in 1 .. Len(env.sealed) :
          /\ env.sealed[j].body = ""
          /\ env.sealed[j].payload = env.arg
          /\ deriveKey(env.sealed[j].addressKey) # deriveKey(env.addressKey)

(* ------------------------------- C26 ----------------------------------- *)
\* C26: two key values derive the same AES key exactly when they are equal
\* once lower-cased, so a payload sealed under one of them, not empty, opens
\* under the other, to the body that was sealed, exactly when the two are
\* equal once lower-cased.
C26_KeyCaseInsensitive ==
    /\ \A k1, k2 \in EnvelopeKeys :
          deriveKey(k1) = deriveKey(k2) <=> toLowerCase(k1) = toLowerCase(k2)
    /\ ( env.op = "decrypt"
         => \A j \in 1 .. Len(env.sealed) :
               ( env.arg = env.sealed[j].payload /\ env.arg # "" )
               => IF toLowerCase(env.addressKey) = toLowerCase(env.sealed[j].addressKey)
                  THEN env.out = [err |-> "", text |-> env.sealed[j].body]
                  ELSE env.out.err = DecryptionFailed )

\* a payload sealed under a key in mixed case was opened under the same key
\* written in lower case
C26_Witness ==
    /\ env.op = "decrypt"
    /\ env.out.err = ""
    /\ env.arg # ""
    /\ \E j \in 1 .. Len(env.sealed) :
          /\ env.arg = env.sealed[j].payload
          /\ env.addressKey # env.sealed[j].addressKey
          /\ env.addressKey = toLowerCase(env.sealed[j].addressKey)
          /\ env.out.text = env.sealed[j].body

(* ------------------------------- C21 ----------------------------------- *)
\* a handler got past its checks: its flag goes up
Began(flag) == ~app[flag] /\ app'[flag]
\* a handler came to its end, one way or the other: its flag comes down
Ended(flag) == app[flag] /\ ~app'[flag]

Halted(flag, job, idle, message) ==
    app' = [app EXCEPT ![flag] = FALSE, ![job] = idle, !.alert = message]

\* C22: a handler that ends either has done what it was started for and shows
\* no alert, or it shows its failure alert, the ledger's contract state is as
\* it was, and the component is as it was but for the alert and the handler
\* being idle again: no other handler has begun, documentKey, decryptedBody,
\* bodyDraft, the selection and the loaded documents are unchanged.  In
\* particular a decryptBody whose envelope does not open ends in the alert.
C22_FailureHalts ==
    [][ /\ Ended("creating")
           => \/ /\ app'.alert = ""
                 /\ Len(events') = Len(events) + 1
                 /\ last'.op = "createDocument" /\ last'.err = ""
              \/ /\ app' = [app EXCEPT !.creating = FALSE, !.alert = CreateFailed]
                 /\ UNCHANGED contractVars
        /\ Ended("decryptingKey")
           => \/ /\ app'.alert = ""
                 /\ app'.documentKey = ClearOf(app.keyJob.handle)
              \/ /\ Halted("decryptingKey", "keyJob", IdleKeyJob, KeyFailed)
                 /\ UNCHANGED contractVars
        /\ Ended("decryptingBody")
           => LET clear == decryptBodyWithKey(app.bodyJob.payload, app.bodyJob.key)
              IN  IF clear.err = ""
                  THEN /\ app'.alert = ""
                       /\ app'.decryptedBody = clear.text
                       /\ app'.bodyDraft = clear.text
                  ELSE /\ Halted("decryptingBody", "bodyJob", IdleBodyJob, BodyFailed)
                       /\ UNCHANGED contractVars
        /\ Ended("savingBody")
           => \/ /\ app'.alert = ""
                 /\ Len(events') = Len(events) + 1
                 /\ last'.op = "updateDocumentBody" /\ last'.err = ""
                 /\ app'.decryptedBody = app.saveJob.draft
              \/ /\ Halted("savingBody", "saveJob", IdleSaveJob, SaveFailed)
                 /\ UNCHANGED contractVars
        /\ Ended("granting")
           => \/ /\ app'.alert = ""
                 /\ Len(events') = Len(events) + 1
                 /\ last'.op = "grantAccess" /\ last'.err = ""
              \/ /\ Halted("granting", "grantJob", IdleGrantJob, GrantFailed)
                 /\ UNCHANGED contractVars
      ]_vars

\* a decryptBody has failed on a body sealed under another key than the one
\* held: the user was told, and the body shown before is still shown
C22_Witness ==
    /\ app.alert = BodyFailed
    /\ ~app.decryptingBody
    /\ app.documentKey # ""
    /\ hasSelectedDoc(app)
    /\ selectedDoc(app).encryptedBody # ""

(* ------------------------------- C31 ----------------------------------- *)
\* C31: a successful grantAccess(id, g) for a pair that is already marked as
\* shared leaves the shared lists, the share marks, the engine's allowances,
\* every record, every owned list and the id counter as they were, and adds
\* exactly one AccessGranted(id, g) notification to the log.
C31_GrantIdempotent ==
    [][ ( Succeeded("grantAccess") /\ _isSharedWith[last'.id][last'.grantee] )
        => /\ _sharedDocuments' = _sharedDocuments
           /\ _isSharedWith' = _isSharedWith
           /\ acl' = acl
           /\ _documents' = _documents
           /\ _ownedDocuments' = _ownedDocuments
           /\ _nextId' = _nextId
           /\ events' = Append(events,
                  [event |-> "AccessGranted", documentId |-> last'.id,
                   who |-> last'.grantee, text |-> ""])
      ]_vars

\* the same grant went through twice in a row: the log ends with the two
\* notifications, and the grantee's list holds the document once
C31_Witness ==
    /\ last.op = "grantAccess"
    /\ last.err = ""
    /\ Len(events) >= 3
    /\ events[Len(events)] = events[Len(events) - 1]
    /\ events[Len(events)].event = "AccessGranted"
    /\ events[Len(events)].who = last.grantee
    /\ Len(getSharedDocumentIds(last.grantee)) = 1

(* ------------------------------- C32 ----------------------------------- *)
\* the log holds the notification of a grant of document d to address p
WasGranted(d, p) ==
    \E j \in 1 .. Len(events) :
       /\ events[j].event = "AccessGranted"
       /\ events[j].documentId = d
       /\ events[j].who = p

\* C32: updateDocumentBody(d, .) and grantAccess(d, .) go through only for
\* the owner of d and for addresses a grantAccess(d, .) has named as grantee
\* before, whatever other documents the caller is allowed on and whatever
\* ciphertext the documents were created from.
C32_AccessPerDocument ==
    [][ ( Succeeded("updateDocumentBody") \/ Succeeded("grantAccess") )
        => \/ last'.sender = _documents[last'.id].owner
           \/ WasGranted(last'.id, last'.sender)
      ]_vars

(* ------------------------------- C33 ----------------------------------- *)
\* C33: for every address p and id, the id is on the shared list of p
\* exactly when the share mark of (id, p) is set, and then the id holds a
\* document and the engine allows p on that document's key.
C33_ShareStructuresAgree ==
    \A p \in Addresses, i \in Ids :
       /\ (\E j \in 1 .. Len(getSharedDocumentIds(p)) :
               getSharedDocumentIds(p)[j] = i)
          <=> _isSharedWith[i][p]
       /\ _isSharedWith[i][p]
          => /\ documentExists(i)
             /\ isSenderAllowed(_documents[i].accessKey, p)

\* one document is shared with two addresses, one of them named by the
\* other, who does not own it
C33_Witness ==
    /\ _isSharedWith[1]["bob"]
    /\ _isSharedWith[1]["carol"]
    /\ last.op = "grantAccess"
    /\ last.err = ""
    /\ last.sender = "bob"
    /\ last.grantee = "carol"
    /\ getSharedDocumentIds("carol") = <<1>>

(* ------------------------------- C34 ----------------------------------- *)
\* C34: whenever documentKey holds a key, a document is selected and the
\* key is the one behind that document's handle; and the key a saveBody
\* under way seals with is the one behind the handle of the document it
\* updates.
C34_KeyOfSelectedDocument ==
    /\ app.documentKey # ""
       => /\ hasSelectedDoc(app)
          /\ app.documentKey = ClearOf(selectedDoc(app).accessKeyHandle)
    /\ app.savingBody
       => app.saveJob.key = ClearOf(_documents[app.saveJob.id].accessKey)

=============================================================================
